---- MODULE Spec2Model ----
(***************************************************************************)
(* Ad-spend dashboard backend: the sync pipelines.                         *)
(*                                                                         *)
(* The Daily Store Metric, Product Metric and Traffic Metric collections,  *)
(* the vendor clients as seen by the orchestrators, the scheduled jobs,    *)
(* the manual syncs, the range backfill and the Facebook retry helper.     *)
(* Dates are day numbers; a date string "YYYY-MM-DD" is the day number,    *)
(* the string 0 stands for any string that Date cannot parse, and a Date   *)
(* object is its getTime() in milliseconds.  One handler runs at a time.   *)
(***************************************************************************)
EXTENDS Integers, Sequences, FiniteSets, TLC

\* ---------------------------------------------------------------- bounds
NumStores == 2
NumDates == 2
MaxRuns == 2
MaxMergeRuns == 1
MaxJobRuns == 1
MaxFbCalls == 2
NumProducts == 2
MaxPages == 2
MaxAuditRuns == 3
MaxUpsertCalls == 3
MaxCalcRuns == 1
MaxTokenRuns == 3
MaxTicks == 3
MaxRemoveRuns == 3
MaxRaceRuns == 1
NumMembers == 1
MaxAccessCalls == 4
MaxPwdCalls == 3
MaxPwdTicks == 3
MaxQueries == 1
MaxOrderPages == 2
MaxOrderCalls == 1
MaxLimit == 3
MaxInsightPages == 3
MaxInsightCalls == 1
MaxAuthCalls == 3
MaxAuthTicks == 3
TickMinutes == 5

\* ------------------------------------------------------ program constants
DayMs == 86400000
InvalidDate == -1
MicrosPerUnit == 1000000
RateLimitCode == 17
MaxRetries == 3
RetryDelayMs == 2000
NoErrorBody == 0
DefaultDaysBack == 7
WeeklyDaysBack == 30
MaxLogCalls == 2
Hundredths == 100
BufferMs == 300000
HourMs == 3600000
\* otpExpiresAt.setMinutes(otpExpiresAt.getMinutes() + 10)
OtpMinutes == 10

Stores == 1..NumStores
Dates == 1..NumDates
\* store ids a request may carry: the existing ones and one unknown id
StoreIdInputs == 1..(NumStores + 1)
\* date strings a request may carry: 0 is an unparseable string
DateStrInputs == 0..NumDates

\* -------------------------------------------------- vendor sample values
\* per-day sums the Shopify orders API can yield (a day without orders, a
\* day with orders)
ShopifyDays ==
    { [soldOrders |-> 0, orderValue |-> 0, soldItems |-> 0],
      [soldOrders |-> 1, orderValue |-> 40, soldItems |-> 2] }
FbSpends == {50}
GoogleCostMicros == {30000000}

\* what the orders query can sum for a product
Products == 1..NumProducts
ProductSamples ==
    { [productName |-> "mug", quantitySold |-> 1, revenue |-> 10],
      [productName |-> "mug v2", quantitySold |-> 2, revenue |-> 25] }

\* rows the traffic query can return; the last has no landing page type
TrafficRawRows ==
    { [landing_page_type |-> "home", landing_page_path |-> "/",
       online_store_visitors |-> 5, sessions |-> 8,
       sessions_with_cart_additions |-> 2, sessions_that_reached_checkout |-> 1],
      [landing_page_type |-> "home", landing_page_path |-> "/",
       online_store_visitors |-> 6, sessions |-> 9,
       sessions_with_cart_additions |-> 3, sessions_that_reached_checkout |-> 2],
      [landing_page_type |-> "product", landing_page_path |-> "/p",
       online_store_visitors |-> 3, sessions |-> 4,
       sessions_with_cart_additions |-> 1, sessions_that_reached_checkout |-> 0],
      [landing_page_type |-> "", landing_page_path |-> "/",
       online_store_visitors |-> 1, sessions |-> 1,
       sessions_with_cart_additions |-> 0, sessions_that_reached_checkout |-> 0] }

\* Graph API error codes other than the rate limit (190: invalid token,
\* 100: invalid parameter)
OtherErrorCodes == {190, 100}

\* the days on which the traffic handlers may run, and the days parameter a
\* manual request may carry (0: absent)
Todays == {8, 9}
DaysInputs == {0, 1}

\* credential sets a store record may carry
FullCreds == [fbAdSpendToken |-> TRUE, fbAccountId |-> TRUE, googleCustomerId |-> TRUE]
CredConfigs ==
    { FullCreds,
      [fbAdSpendToken |-> TRUE, fbAccountId |-> TRUE, googleCustomerId |-> FALSE],
      [fbAdSpendToken |-> FALSE, fbAccountId |-> TRUE, googleCustomerId |-> TRUE],
      [fbAdSpendToken |-> TRUE, fbAccountId |-> FALSE, googleCustomerId |-> TRUE] }

VARIABLES
    stores,     \* Store collection: store id -> credential fields
    metrics,    \* Daily Store Metric collection (set of documents)
    auditLog,   \* Audit Log collection: the distinct entries stored (entries
                \* that differ only in timestamp or duration are one)
    products,   \* Product Metric collection (set of documents)
    traffic,    \* Traffic Metric collection (set of documents)
    fbCall,     \* the callFacebook activation in progress or last finished
    op,         \* the handler activation in progress (or Idle)
    iter,       \* what the current per-store sync has fetched and done
    runs,       \* number of handler activations started
    call,       \* the vendor call last made on its own, with its outcome
    upserts,    \* the createOrUpdate call of each caller: its input and
                \* its position inside findOneAndUpdate
    inflight,   \* the vendor calls the daily job has started, each pending
                \* or settled with its outcome
    insight,    \* the insight row calculateMetrics was last given, with the
                \* metrics it returned
    google,     \* a store's Google OAuth fields, the clock, and the
                \* getValidAccessToken call in progress or last finished
    agg,        \* the aggregate query last answered: its arguments and
                \* the totals returned
    auditQuery, \* the audit log query last answered
    users,      \* User collection (set of documents)
    pendingUsers, \* PendingUser collection (set of documents)
    authCalls,  \* the signup, verifyOtp and resendOtp requests in progress or
                \* last finished, each with its position in its handler
    authNow,    \* the clock the auth handlers read, in minutes
    orders,     \* the fetchOrders call last made, page by page, with its result
    insights, \* the fetchInsights call last made: the pages served and the rows returned
    syncs, \* the product syncs that may overlap, one record per process
    removeRace, \* a store removal beside a running sync job, and the store documents the job read
    access, \* the user records, the token each client holds and the request being admitted
    pwd  \* the password of the account, its password reset requests and the calls in progress

vars == <<stores, metrics, products, traffic, fbCall, auditLog, op, iter, runs, call, upserts, inflight, insight, google, agg, auditQuery,
          users, pendingUsers, authCalls, authNow, orders, insights, syncs, removeRace, access, pwd>>

\* the state of the components the sync handlers do not touch
authVars == <<users, pendingUsers, authCalls, authNow>>
later == <<orders, insights, syncs, removeRace, access, pwd>>
rest == <<agg, auditQuery, authVars, later>>
others == <<call, upserts, inflight, insight, google, rest>>

\* ------------------------------------------------------------ date helpers
\* new Date("YYYY-MM-DD").getTime(); NaN for an unparseable string
newDate(dateStr) == IF dateStr \in Dates THEN dateStr * DayMs ELSE InvalidDate
isNaN(t) == t = InvalidDate
\* date.toISOString().slice(0, 10)
toISODate(t) == t \div DayMs

\* a sequence listing the elements of a set of numbers in ascending order
RECURSIVE sortedSeq(_)
sortedSeq(S) ==
    IF S = {} THEN <<>>
    ELSE LET m == CHOOSE x \in S : \A y \in S : x <= y
         IN <<m>> \o sortedSeq(S \ {m})

\* ------------------------------------------------------------ audit sink
auditEntry(action, status, storeId) ==
    [action |-> action, status |-> status, storeId |-> storeId]

\* a log that keeps only what it was last given
log_Replace(coll, entries) == {entries[i] : i \in 1..Len(entries)}

\* AuditService.log, for each entry of a sequence of entries
log(coll, entries) == coll \cup {entries[i] : i \in 1..Len(entries)}

\* a log whose failed save reaches the caller, as without the try block
auditLogSave_Throwing(coll, input, saveOk) ==
    [threw |-> ~saveOk, coll |-> IF saveOk THEN coll \cup {input} ELSE coll]

\* AuditService.log when auditLog.save() may fail: try { await
\* auditLog.save() } catch (error) { this.logger.error(...) }
auditLogSave(coll, input, saveOk) ==
    [threw |-> FALSE, coll |-> IF saveOk THEN coll \cup {input} ELSE coll]

\* the log calls of one vendor call, in order, each with its own save outcome
RECURSIVE auditLogSaveAll(_, _, _)
auditLogSaveAll(coll, entries, saves) ==
    IF entries = <<>> THEN [threw |-> FALSE, coll |-> coll]
    ELSE LET r == auditLogSave(coll, Head(entries), Head(saves))
         IN IF r.threw THEN r
            ELSE auditLogSaveAll(r.coll, Tail(entries), Tail(saves))

\* ------------------------------------------------------- metrics store
\* an insert on every call, as without the filter and the unique index
createOrUpdate_AlwaysInsert(coll, input) ==
    coll \cup {[storeId |-> input.storeId,
                date |-> input.date,
                facebookMetaSpend |-> input.facebookMetaSpend,
                googleAdSpend |-> input.googleAdSpend,
                shopifySoldOrders |-> input.shopifySoldOrders,
                shopifyOrderValue |-> input.shopifyOrderValue,
                shopifySoldItems |-> input.shopifySoldItems]}

\* findOneAndUpdate({storeId, date}, {$set: {five fields}}, {upsert: true})
createOrUpdate(coll, input) ==
    LET matches == {r \in coll : r.storeId = input.storeId /\ r.date = input.date}
        doc == [storeId |-> input.storeId,
                date |-> input.date,
                facebookMetaSpend |-> input.facebookMetaSpend,
                googleAdSpend |-> input.googleAdSpend,
                shopifySoldOrders |-> input.shopifySoldOrders,
                shopifyOrderValue |-> input.shopifyOrderValue,
                shopifySoldItems |-> input.shopifySoldItems]
    IN IF matches = {}
       THEN coll \cup {doc}
       ELSE LET r == CHOOSE x \in matches : TRUE
            IN (coll \ {r}) \cup
               {[r EXCEPT !.facebookMetaSpend = input.facebookMetaSpend,
                          !.googleAdSpend = input.googleAdSpend,
                          !.shopifySoldOrders = input.shopifySoldOrders,
                          !.shopifyOrderValue = input.shopifyOrderValue,
                          !.shopifySoldItems = input.shopifySoldItems]}

\* a cascade that deletes nothing
deleteByStoreId_None(coll, storeId) == coll

\* MetricsService.deleteByStoreId: deleteMany({storeId})
deleteByStoreId(coll, storeId) == {r \in coll : r.storeId # storeId}

\* ------------------------------------------------------- vendor clients
\* Each client returns [threw, failed, data, audit, called]: whether it
\* raised, whether its vendor call failed, the rows it returned, the audit
\* entries it wrote and whether it reached the vendor's API.

\* ShopifyService.fetchOrders: one entry per calendar day from..to; api is
\* the answer of the orders query: an error, or the sums of each day
RECURSIVE fetchOrdersLoop(_, _, _, _)
fetchOrdersLoop(currentDate, to, api, results) ==
    IF currentDate <= to
    THEN LET day == api.days[toISODate(currentDate)]
         IN fetchOrdersLoop(currentDate + DayMs, to, api,
                Append(results, [date |-> toISODate(currentDate),
                                 soldOrders |-> day.soldOrders,
                                 orderValue |-> day.orderValue,
                                 soldItems |-> day.soldItems]))
    ELSE results

fetchOrders(storeId, from, to, api) ==
    LET started == auditEntry("SHOPIFY_SYNC_STARTED", "PENDING", storeId)
    IN IF ~api.ok
       THEN [threw |-> TRUE, failed |-> TRUE, data |-> <<>>, called |-> TRUE,
             audit |-> <<started, auditEntry("SHOPIFY_SYNC_FAILED", "FAILURE", storeId)>>]
       ELSE [threw |-> FALSE, failed |-> FALSE, data |-> fetchOrdersLoop(from, to, api, <<>>),
             called |-> TRUE,
             audit |-> <<started, auditEntry("SHOPIFY_ORDERS_FETCHED", "SUCCESS", storeId)>>]

\* FacebookService.fetchAdSpend: api is the answer callFacebook ends with,
\* an error or the rows of data.data
fbMapRows(rows) == [i \in 1..Len(rows) |-> [date |-> rows[i].date_start, spend |-> rows[i].spend]]

fbFetchAdSpend(store, storeId, api) ==
    LET started == auditEntry("FACEBOOK_SYNC_STARTED", "PENDING", storeId)
        failed == auditEntry("FACEBOOK_SYNC_FAILED", "FAILURE", storeId)
    IN IF ~store.fbAccountId
       THEN \* adAccountId.startsWith on an absent id raises a TypeError
            [threw |-> TRUE, failed |-> TRUE, data |-> <<>>, called |-> FALSE,
             audit |-> <<started, failed>>]
       ELSE IF ~api.ok
       THEN [threw |-> TRUE, failed |-> TRUE, data |-> <<>>, called |-> TRUE,
             audit |-> <<started, failed>>]
       ELSE IF Len(api.rows) = 0
       THEN [threw |-> FALSE, failed |-> FALSE, data |-> <<>>, called |-> TRUE,
             audit |-> <<started>>]
       ELSE [threw |-> FALSE, failed |-> FALSE, data |-> fbMapRows(api.rows), called |-> TRUE,
             audit |-> <<started, auditEntry("FACEBOOK_AD_SPEND_FETCHED", "SUCCESS", storeId)>>]

\* GoogleService.fetchAdSpend: api is the answer of the search stream, an
\* error or its results
RECURSIVE spendByDate(_, _)
spendByDate(results, acc) ==
    IF results = <<>> THEN acc
    ELSE LET r == Head(results)
             costDollars == r.costMicros \div MicrosPerUnit
             hit == {i \in 1..Len(acc) : acc[i].date = r.date}
         IN IF hit = {}
            THEN spendByDate(Tail(results), Append(acc, [date |-> r.date, spend |-> costDollars]))
            ELSE LET i == CHOOSE j \in hit : TRUE
                 IN spendByDate(Tail(results), [acc EXCEPT ![i].spend = @ + costDollars])

\* the client without its early return for a missing customer id
googleFetchAdSpend_NoEarlyReturn(store, storeId, api) ==
    LET started == auditEntry("FACEBOOK_SYNC_STARTED", "PENDING", storeId)
    IN IF ~api.ok \/ ~store.googleCustomerId
       THEN [threw |-> FALSE, failed |-> TRUE, data |-> <<>>, called |-> TRUE,
             audit |-> <<started, auditEntry("FACEBOOK_SYNC_FAILED", "FAILURE", storeId)>>]
       ELSE [threw |-> FALSE, failed |-> FALSE, data |-> spendByDate(api.rows, <<>>), called |-> TRUE,
             audit |-> <<started, auditEntry("FACEBOOK_AD_SPEND_FETCHED", "SUCCESS", storeId)>>]

googleFetchAdSpend(store, storeId, api) ==
    LET started == auditEntry("FACEBOOK_SYNC_STARTED", "PENDING", storeId)
    IN IF ~store.googleCustomerId
       THEN [threw |-> FALSE, failed |-> FALSE, data |-> <<>>, called |-> FALSE, audit |-> <<>>]
       ELSE IF ~api.ok
       THEN \* the catch block logs, audits and returns []
            [threw |-> FALSE, failed |-> TRUE, data |-> <<>>, called |-> TRUE,
             audit |-> <<started, auditEntry("FACEBOOK_SYNC_FAILED", "FAILURE", storeId)>>]
       ELSE [threw |-> FALSE, failed |-> FALSE, data |-> spendByDate(api.rows, <<>>), called |-> TRUE,
             audit |-> <<started, auditEntry("FACEBOOK_AD_SPEND_FETCHED", "SUCCESS", storeId)>>]

\* ------------------------------------------------ what the vendors answer
ApiError == [ok |-> FALSE, rows |-> <<>>]

\* the Shopify orders API: an error, or per-day sums for the queried days
ShopifyApi(from, to) ==
    LET days == toISODate(from)..toISODate(to)
    IN {[ok |-> FALSE, days |-> [d \in days |-> CHOOSE x \in ShopifyDays : x.soldOrders = 0]]}
       \cup {[ok |-> TRUE, days |-> f] : f \in [days -> ShopifyDays]}

\* the Facebook insights API: an error, or one row per day with spend among
\* the days of adDates; without an access token it can only answer an error
FbApi(store, adDates) ==
    IF ~store.fbAdSpendToken THEN {ApiError}
    ELSE {ApiError} \cup
         UNION { { [ok |-> TRUE,
                    rows |-> [i \in 1..Cardinality(ds) |->
                       [date_start |-> sortedSeq(ds)[i], spend |-> f[sortedSeq(ds)[i]]]]]
                   : f \in [ds -> FbSpends] }
                 : ds \in SUBSET adDates }

\* the Google Ads search stream: an error, or one result per day with cost
GoogleApi(adDates) ==
    {ApiError} \cup
    UNION { { [ok |-> TRUE,
               rows |-> [i \in 1..Cardinality(ds) |->
                  [date |-> sortedSeq(ds)[i], costMicros |-> f[sortedSeq(ds)[i]]]]]
              : f \in [ds -> GoogleCostMicros] }
            : ds \in SUBSET adDates }

\* ------------------------------------------------------ merge by date key
hasKey(m, dateStr) == \E i \in 1..Len(m) : m[i].key = dateStr
keyIndex(m, dateStr) == CHOOSE i \in 1..Len(m) : m[i].key = dateStr

\* a new entry on every call, as without the has(dateStr) test
getOrCreateEntry_AlwaysNew(m, storeId, dateStr) ==
    Append(m, [key |-> dateStr,
               storeId |-> storeId,
               date |-> newDate(dateStr),
               facebookMetaSpend |-> 0,
               googleAdSpend |-> 0,
               shopifySoldOrders |-> 0,
               shopifyOrderValue |-> 0,
               shopifySoldItems |-> 0])

\* const getOrCreateEntry = (dateStr) => { if (!metricsByDate.has(dateStr)) ... }
getOrCreateEntry(m, storeId, dateStr) ==
    IF ~hasKey(m, dateStr)
    THEN Append(m, [key |-> dateStr,
                    storeId |-> storeId,
                    date |-> newDate(dateStr),
                    facebookMetaSpend |-> 0,
                    googleAdSpend |-> 0,
                    shopifySoldOrders |-> 0,
                    shopifyOrderValue |-> 0,
                    shopifySoldItems |-> 0])
    ELSE m

RECURSIVE processShopify(_, _, _)
processShopify(m, storeId, rows) ==
    IF rows = <<>> THEN m
    ELSE LET row == Head(rows)
             m1 == getOrCreateEntry(m, storeId, row.date)
             i == keyIndex(m1, row.date)
         IN processShopify([m1 EXCEPT ![i].shopifySoldOrders = row.soldOrders,
                                      ![i].shopifyOrderValue = row.orderValue,
                                      ![i].shopifySoldItems = row.soldItems],
                           storeId, Tail(rows))

RECURSIVE processFacebook(_, _, _)
processFacebook(m, storeId, rows) ==
    IF rows = <<>> THEN m
    ELSE LET row == Head(rows)
             m1 == getOrCreateEntry(m, storeId, row.date)
             i == keyIndex(m1, row.date)
         IN processFacebook([m1 EXCEPT ![i].facebookMetaSpend = row.spend],
                            storeId, Tail(rows))

RECURSIVE processGoogle(_, _, _)
processGoogle(m, storeId, rows) ==
    IF rows = <<>> THEN m
    ELSE LET row == Head(rows)
             m1 == getOrCreateEntry(m, storeId, row.date)
             i == keyIndex(m1, row.date)
         IN processGoogle([m1 EXCEPT ![i].googleAdSpend = row.spend],
                          storeId, Tail(rows))

\* the values of metricsByDate, in insertion order
metricsByDate(storeId, shopifyData, fbData, googleSpend) ==
    processGoogle(
        processFacebook(
            processShopify(<<>>, storeId, shopifyData),
            storeId, fbData),
        storeId, googleSpend)

\* an upsert whose filter names the store alone
upsertProductMetric_AnyProduct(coll, input) ==
    LET matches == {r \in coll : r.storeId = input.storeId}
    IN IF matches = {}
       THEN coll \cup {[storeId |-> input.storeId,
                        productId |-> input.productId,
                        productName |-> input.productName,
                        totalQuantitySold |-> input.quantitySold,
                        totalRevenue |-> input.revenue]}
       ELSE LET r == CHOOSE x \in matches : TRUE
            IN (coll \ {r}) \cup
               {[r EXCEPT !.productName = input.productName,
                          !.totalQuantitySold = @ + input.quantitySold,
                          !.totalRevenue = @ + input.revenue]}

\* ------------------------------------------------------- product store
\* findOneAndUpdate({storeId, productId}, {$set: {productName, ...}, $inc:
\* {totalQuantitySold, totalRevenue}}, {upsert: true}); productImage and
\* productUrl are $set like productName
upsertProductMetric(coll, input) ==
    LET matches == {r \in coll : r.storeId = input.storeId /\ r.productId = input.productId}
    IN IF matches = {}
       THEN coll \cup {[storeId |-> input.storeId,
                        productId |-> input.productId,
                        productName |-> input.productName,
                        totalQuantitySold |-> input.quantitySold,
                        totalRevenue |-> input.revenue]}
       ELSE LET r == CHOOSE x \in matches : TRUE
            IN (coll \ {r}) \cup
               {[r EXCEPT !.productName = input.productName,
                          !.totalQuantitySold = @ + input.quantitySold,
                          !.totalRevenue = @ + input.revenue]}

\* a reset that leaves the totals as they are
resetStoreProducts_Keep(coll, storeId) == coll

\* updateMany({storeId}, {$set: {totalQuantitySold: 0, totalRevenue: 0}})
resetStoreProducts(coll, storeId) ==
    {IF r.storeId = storeId
     THEN [r EXCEPT !.totalQuantitySold = 0, !.totalRevenue = 0]
     ELSE r : r \in coll}

\* ShopifyService.fetchProductSales: api is the answer of the orders query
\* as summed into productMap, one entry per product id
fetchProductSales(storeId, api) ==
    LET started == auditEntry("SHOPIFY_SYNC_STARTED", "PENDING", storeId)
    IN IF ~api.ok
       THEN [threw |-> TRUE, data |-> <<>>,
             audit |-> <<started, auditEntry("SHOPIFY_SYNC_FAILED", "FAILURE", storeId)>>]
       ELSE [threw |-> FALSE, data |-> api.rows,
             audit |-> <<started, auditEntry("SHOPIFY_PRODUCTS_SYNCED", "SUCCESS", storeId)>>]

\* ------------------------------------------------------- traffic store
\* findOneAndUpdate({storeId, landingPagePath, startDate}, {$set: {...}},
\* {upsert: true})
upsertTrafficMetric(coll, input) ==
    LET matches == {r \in coll : /\ r.storeId = input.storeId
                                 /\ r.landingPagePath = input.landingPagePath
                                 /\ r.startDate = input.startDate}
    IN IF matches = {}
       THEN coll \cup {[storeId |-> input.storeId,
                        landingPagePath |-> input.landingPagePath,
                        startDate |-> input.startDate,
                        landingPageType |-> input.landingPageType,
                        onlineStoreVisitors |-> input.onlineStoreVisitors,
                        sessions |-> input.sessions,
                        sessionsWithCartAdditions |-> input.sessionsWithCartAdditions,
                        sessionsThatReachedCheckout |-> input.sessionsThatReachedCheckout,
                        endDate |-> input.endDate]}
       ELSE LET r == CHOOSE x \in matches : TRUE
            IN (coll \ {r}) \cup
               {[r EXCEPT !.landingPageType = input.landingPageType,
                          !.onlineStoreVisitors = input.onlineStoreVisitors,
                          !.sessions = input.sessions,
                          !.sessionsWithCartAdditions = input.sessionsWithCartAdditions,
                          !.sessionsThatReachedCheckout = input.sessionsThatReachedCheckout,
                          !.endDate = input.endDate]}

\* a reset that spares the rows starting exactly at the window start
resetStoreTraffic_After(coll, storeId, startDate) ==
    {r \in coll : ~(r.storeId = storeId /\ r.startDate > startDate)}

\* deleteMany({storeId, startDate: {$gte: startDate}})
resetStoreTraffic(coll, storeId, startDate) ==
    {r \in coll : ~(r.storeId = storeId /\ r.startDate >= startDate)}

\* ShopifyService.fetchTrafficAnalytics: api is the answer of the ShopifyQL
\* query, an error or the rows of tableData
trafficMapRows(rows) ==
    [i \in 1..Len(rows) |->
        [landingPageType |-> IF rows[i].landing_page_type = "" THEN "Unknown"
                             ELSE rows[i].landing_page_type,
         landingPagePath |-> IF rows[i].landing_page_path = "" THEN "/"
                             ELSE rows[i].landing_page_path,
         onlineStoreVisitors |-> rows[i].online_store_visitors,
         sessions |-> rows[i].sessions,
         sessionsWithCartAdditions |-> rows[i].sessions_with_cart_additions,
         sessionsThatReachedCheckout |-> rows[i].sessions_that_reached_checkout]]

fetchTrafficAnalytics(storeId, api) ==
    LET started == auditEntry("SHOPIFY_SYNC_STARTED", "PENDING", storeId)
    IN IF ~api.ok
       THEN [threw |-> TRUE, data |-> <<>>,
             audit |-> <<started, auditEntry("SHOPIFY_SYNC_FAILED", "FAILURE", storeId)>>]
       ELSE [threw |-> FALSE, data |-> trafficMapRows(api.rows),
             audit |-> <<started, auditEntry("SHOPIFY_TRAFFIC_SYNCED", "SUCCESS", storeId)>>]

\* the sequences of distinct elements of a set, up to a length
RECURSIVE distinctSeqs(_, _)
distinctSeqs(S, n) ==
    IF n = 0 THEN {<<>>}
    ELSE LET shorter == distinctSeqs(S, n - 1)
         IN shorter \cup
            UNION {{Append(q, x) : x \in {y \in S : \A i \in 1..Len(q) : q[i] # y}}
                   : q \in shorter}

\* the product sales a fetch can yield: an error, or one entry per product
\* of some set of products, in any order
ProductSalesApi ==
    {ApiError} \cup
    UNION { { [ok |-> TRUE,
               rows |-> [i \in 1..Len(q) |->
                           [productId |-> q[i],
                            productName |-> f[q[i]].productName,
                            quantitySold |-> f[q[i]].quantitySold,
                            revenue |-> f[q[i]].revenue]]]
              : f \in [Products -> ProductSamples] }
            : q \in distinctSeqs(Products, NumProducts) }

\* the landing-page rows a traffic query can yield: an error, or up to
\* MaxPages rows, no two of the same (type, path) group
TrafficApi ==
    {ApiError} \cup
    { [ok |-> TRUE, rows |-> q] :
        q \in {t \in distinctSeqs(TrafficRawRows, MaxPages) :
                 \A i, j \in 1..Len(t) :
                    (i # j) => <<t[i].landing_page_type, t[i].landing_page_path>>
                               # <<t[j].landing_page_type, t[j].landing_page_path>>} }

\* --------------------------------------------------------------- state
NoResponse == [status |-> 0, thrown |-> FALSE, daysProcessed |-> 0]

Idle ==
    [kind |-> "idle", pc |-> "none", list |-> <<>>, idx |-> 0, visited |-> <<>>,
     caught |-> {}, store |-> 0, startDate |-> 0, endDate |-> 0, from |-> 0, to |-> 0,
     queue |-> <<>>, count |-> 0, response |-> NoResponse]

\* iter records, for the per-store sync in progress: the collections as they
\* were when it began, the vendors reached and failed, the rows each vendor
\* returned, the merged records, the createOrUpdate inputs issued so far, the
\* audit entries written and the count logged or returned at its end
NoIter ==
    [store |-> 0, status |-> "none", before |-> {}, auditBefore |-> {},
     failed |-> {}, called |-> {},
     shopifyData |-> <<>>, fbData |-> <<>>, googleSpend |-> <<>>,
     batch |-> <<>>, merged |-> <<>>, issued |-> <<>>, audit |-> <<>>, reported |-> 0]

startedOn(storeId, coll) ==
    [NoIter EXCEPT !.store = storeId, !.status = "started",
                   !.before = coll, !.auditBefore = auditLog]
started(storeId) == startedOn(storeId, metrics)

NoInsight == [given |-> FALSE]
\* storeIds left undefined by the caller
NoStoreIds == [given |-> FALSE, ids |-> {}]
NoTotals ==
    [totalStores |-> 0, totalAdSpend |-> 0, totalOrders |-> 0, totalRevenue |-> 0,
     dateRange |-> ""]
\* the requests of the signup flow that may be in progress together
AuthCalls == {"signup", "verifyOtp1", "verifyOtp2", "resendOtp"}
NoPendingUser == [id |-> 0, email |-> "", storeName |-> "", otp |-> 0, otpExpiresAt |-> 0]
NoAuthCall ==
    [pc |-> "idle", id |-> 0, email |-> "", storeName |-> "", otp |-> 0, otpExpiresAt |-> 0,
     found |-> NoPendingUser, checkedAt |-> 0, status |-> 0]
\* no page-by-page fetchOrders call made yet
NoOrdersCall ==
    [pc |-> "idle", store |-> 0, from |-> 0, to |-> 0, api |-> <<>>, threw |-> FALSE,
     results |-> <<>>, requested |-> <<>>]
\* no fetchInsights call made yet
NoInsightsCall ==
    [pc |-> "idle", store |-> 0, limit |-> 0, pages |-> <<>>, threw |-> FALSE,
     rows |-> <<>>, followed |-> 0]
\* the processes whose product syncs may overlap
Syncers == {"first", "second"}
\* the process the @Cron scheduler runs the job in; a request is served in either
Scheduler == "first"
\* a process that has not started a product sync: its handler's position,
\* the batch it fetched for the store it is working on and, per store it
\* finished, the batch it stored
NoSync == [o |-> Idle, fetched |-> <<>>, batches |-> {}]

\* no removal requested, no store list read by a job
NoRemoveRace == [pc |-> "idle", store |-> 0, status |-> 0, docs |-> <<>>]

\* the users whose store access is followed
Members == 1..NumMembers
NoToken == [sub |-> 0, role |-> "", assignedStores |-> {}]
NoUser == [given |-> FALSE, userId |-> 0, role |-> "", assignedStores |-> {}]
NoRequest == [pc |-> "idle", token |-> NoToken, store |-> 0, user |-> NoUser, status |-> 0]
\* every user starts as an active viewer with no store assigned, holding
\* no token; no request is being served
NoAccess ==
    [members |-> [u \in Members |-> [role |-> "VIEWER", isActive |-> TRUE,
                                     assignedStores |-> {}]],
     tokens |-> [u \in Members |-> NoToken],
     request |-> NoRequest]

\* the forgot-password and reset-password requests that may be in progress
Forgetters == {"forgot1", "forgot2"}
Resetters == {"reset1", "reset2"}
NoPasswordReset == [id |-> 0, email |-> "", otp |-> 0, otpExpiresAt |-> 0, isUsed |-> FALSE]
NoPwdCall ==
    [pc |-> "idle", email |-> "", otp |-> 0, otpExpiresAt |-> 0, newPassword |-> 0,
     found |-> NoPasswordReset, checkedAt |-> 0, status |-> 0]
\* one active account, of AccountEmail, with its first password; no reset
\* request stored; the clock, in minutes, at 0. created counts the reset
\* requests stored so far and overlapped tells whether two calls have run
\* at the same time
AccountEmail == "a@x"
NoPwd ==
    [password |-> [hashOf |-> 0], resets |-> {},
     calls |-> [c \in Forgetters \cup Resetters |-> NoPwdCall],
     now |-> 0, created |-> 0, started |-> 0, ticks |-> 0, overlapped |-> FALSE]

\* no audit log query made yet
NoAuditQuery == [pc |-> "idle", storeId |-> 0, logs |-> {}]
\* no aggregate query made yet
NoAggregate ==
    [pc |-> "idle", via |-> "", role |-> "", assignedStores |-> {}, range |-> "",
     storeIds |-> NoStoreIds, today |-> 0, response |-> NoTotals]

\* googleAccessToken 0 is no token, googleTokenExpiry 0 is no expiry
NoTokens == [googleAccessToken |-> 0, googleRefreshToken |-> FALSE, googleTokenExpiry |-> 0]
NotConnected ==
    [doc |-> NoTokens, now |-> 0, ticks |-> 0, minted |-> 0, pc |-> "idle",
     store |-> NoTokens, calledAt |-> 0, checkedAt |-> 0, before |-> NoTokens,
     outcome |-> "none", returned |-> 0, refreshed |-> FALSE]

\* the handlers that upsert Daily Store Metric rows and can run at once
Callers == {"handleDailySync", "dailySync"}
NoUpsert == [pc |-> "idle", input |-> <<>>, refused |-> FALSE]

NoCall ==
    [client |-> "none", store |-> 0, threw |-> FALSE, data |-> <<>>,
     expected |-> [threw |-> FALSE, data |-> <<>>, failed |-> FALSE], attempted |-> <<>>,
     saved |-> <<>>, logBefore |-> {}]

FbIdle ==
    [pc |-> "idle", store |-> 0, retry |-> 0, requests |-> 0, waitedMs |-> 0,
     codes |-> <<>>, rows |-> <<>>]

InitWith(storeRecords) ==
    /\ stores = storeRecords
    /\ metrics = {}
    /\ products = {}
    /\ traffic = {}
    /\ fbCall = FbIdle
    /\ auditLog = {}
    /\ op = Idle
    /\ iter = NoIter
    /\ runs = 0
    /\ call = NoCall
    /\ upserts = [c \in Callers |-> NoUpsert]
    /\ inflight = {}
    /\ insight = NoInsight
    /\ google = NotConnected
    /\ agg = NoAggregate
    /\ auditQuery = NoAuditQuery
    /\ users = {}
    /\ pendingUsers = {}
    /\ authCalls = [c \in AuthCalls |-> NoAuthCall]
    /\ authNow = 0
    /\ pwd = NoPwd
    /\ access = NoAccess
    /\ removeRace = NoRemoveRace
    /\ syncs = [p \in Syncers |-> NoSync]
    /\ insights = NoInsightsCall
    /\ orders = NoOrdersCall

Init == InitWith([s \in Stores |-> FullCreds])

\* StoresService.findAll(): every store, in collection order
findAll == sortedSeq(DOMAIN stores)

\* the vendors a per-store sync reached and the ones that failed
vendorsWhere(s, f, g, field) ==
    (IF s[field] THEN {"shopify"} ELSE {}) \cup
    (IF f[field] THEN {"facebook"} ELSE {}) \cup
    (IF g[field] THEN {"google"} ELSE {})

\* const [shopifyData, fbData, googleSpend] = await Promise.all([...]),
\* followed by the merge into metricsByDate
\* store is the document the caller holds
fetchAndMergeOf(store, storeId, from, to, sApi, fApi, gApi) ==
    LET s == fetchOrders(storeId, from, to, sApi)
        f == fbFetchAdSpend(store, storeId, fApi)
        g == googleFetchAdSpend(store, storeId, gApi)
        threw == s.threw \/ f.threw \/ g.threw
        audit == s.audit \o f.audit \o g.audit
        merged == IF threw THEN <<>>
                  ELSE metricsByDate(storeId, s.data, f.data, g.data)
    IN [threw |-> threw,
        audit |-> audit,
        merged |-> merged,
        iter |-> [store |-> storeId,
                  status |-> IF threw THEN "failed" ELSE "upserting",
                  before |-> metrics, auditBefore |-> auditLog,
                  failed |-> vendorsWhere(s, f, g, "failed"),
                  called |-> vendorsWhere(s, f, g, "called"),
                  shopifyData |-> s.data, fbData |-> f.data, googleSpend |-> g.data,
                  batch |-> <<>>, merged |-> merged, issued |-> <<>>, audit |-> audit,
                  reported |-> 0]]

\* the same for a store just read from the collection
fetchAndMerge(storeId, from, to, sApi, fApi, gApi) ==
    fetchAndMergeOf(stores[storeId], storeId, from, to, sApi, fApi, gApi)

AdDates(from, to) == toISODate(from)..toISODate(to)

\* ----------------------------------------- SyncMetricsJob.handleDailySync
handleDailySync(limit) ==
    /\ op.kind = "idle"
    /\ runs < limit
    /\ \E y \in Dates :
         LET yesterday == newDate(y)
             list == findAll
         IN op' = [Idle EXCEPT !.kind = "handleDailySync",
                               !.pc = IF list = <<>> THEN "done" ELSE "fetch",
                               !.list = list, !.idx = 1,
                               !.from = yesterday, !.to = yesterday]
    /\ runs' = runs + 1
    /\ iter' = started(0)
    /\ UNCHANGED <<others, products, traffic, fbCall, stores, metrics, auditLog>>

\* a loop whose failure ends the run
catchInLoop_Rethrow(o, firstPc) ==
    [o EXCEPT !.pc = "done", !.caught = o.caught \cup {o.list[o.idx]}]

\* for (const store of stores): the position after the iteration of
\* list[idx], whose first step is firstPc
afterStore(o, firstPc) ==
    [o EXCEPT !.idx = o.idx + 1,
              !.visited = Append(o.visited, o.list[o.idx]),
              !.pc = IF o.idx + 1 > Len(o.list) THEN "done" ELSE firstPc,
              !.queue = <<>>, !.count = 0]

\* catch (error) { logger.error(...) } inside the loop body: the failure of
\* list[idx] is logged and the loop goes on with the next store
catchInLoop(o, firstPc) ==
    [afterStore(o, firstPc) EXCEPT !.caught = o.caught \cup {o.list[o.idx]}]

\* one store's try block up to the first upsert; a rejected Promise.all
\* lands in the catch block and the loop goes on
jobFetch(adDates) ==
    /\ op.kind = "handleDailySync"
    /\ op.pc = "fetch"
    /\ LET storeId == op.list[op.idx]
       IN \E sApi \in ShopifyApi(op.from, op.to),
             fApi \in FbApi(stores[storeId], adDates),
             gApi \in GoogleApi(adDates) :
            LET r == fetchAndMerge(storeId, op.from, op.to, sApi, fApi, gApi)
            IN /\ auditLog' = log(auditLog, r.audit)
               /\ iter' = r.iter
               /\ op' = IF r.threw THEN catchInLoop(op, "fetch")
                        ELSE [op EXCEPT !.pc = "upsert", !.store = storeId,
                                        !.queue = r.merged, !.count = 0]
    /\ UNCHANGED <<others, products, traffic, fbCall, stores, metrics, runs>>

\* for (const metric of metricsByDate.values()) { await createOrUpdate(metric); count++ }
upsertStep ==
    /\ op.kind \in {"handleDailySync", "dailySync", "rangeSync"}
    /\ op.pc = "upsert"
    /\ op.queue # <<>>
    /\ metrics' = createOrUpdate(metrics, Head(op.queue))
    /\ op' = [op EXCEPT !.queue = Tail(op.queue), !.count = op.count + 1]
    /\ iter' = [iter EXCEPT !.issued = Append(iter.issued, Head(op.queue))]
    /\ UNCHANGED <<others, products, traffic, fbCall, stores, auditLog, runs>>

jobStoreDone ==
    /\ op.kind = "handleDailySync"
    /\ op.pc = "upsert"
    /\ op.queue = <<>>
    /\ op' = afterStore(op, "fetch")
    /\ iter' = [iter EXCEPT !.status = "done", !.reported = op.count]
    /\ UNCHANGED <<others, products, traffic, fbCall, stores, metrics, auditLog, runs>>

\* the handler has returned (or raised); the process is idle again
return ==
    /\ op.pc = "done"
    /\ op' = Idle
    /\ iter' = NoIter
    /\ UNCHANGED <<others, products, traffic, fbCall, stores, metrics, auditLog, runs>>

\* ------------------------------------------- MetricsController.dailySync
dailySync(limit) ==
    /\ op.kind = "idle"
    /\ runs < limit
    /\ \E storeId \in StoreIdInputs, y \in Dates :
         /\ op' = IF storeId \notin DOMAIN stores
                  THEN \* findOne raises NotFound
                       [Idle EXCEPT !.kind = "dailySync", !.pc = "done", !.store = storeId,
                                    !.response = [NoResponse EXCEPT !.status = 404, !.thrown = TRUE]]
                  ELSE [Idle EXCEPT !.kind = "dailySync", !.pc = "fetch", !.store = storeId,
                                    !.from = newDate(y), !.to = newDate(y)]
         /\ iter' = started(storeId)
    /\ runs' = runs + 1
    /\ UNCHANGED <<others, products, traffic, fbCall, stores, metrics, auditLog>>

\* ------------------------------------------- MetricsController.rangeSync
\* if (isNaN(from.getTime()) || isNaN(to.getTime())) return {error, status: 400}
invalidFormat(from, to) == isNaN(from) \/ isNaN(to)
\* a check that also rejects a range of one day
invalidOrder_OrEqual(from, to) == from >= to
\* if (from > to) return {error, status: 400}
invalidOrder(from, to) == from > to

rangeSync(limit) ==
    /\ op.kind = "idle"
    /\ runs < limit
    /\ \E storeId \in StoreIdInputs, startDate \in DateStrInputs, endDate \in DateStrInputs :
         LET from == newDate(startDate)
             to == newDate(endDate)
             o == [Idle EXCEPT !.kind = "rangeSync", !.store = storeId,
                               !.startDate = startDate, !.endDate = endDate]
         IN /\ op' = IF storeId \notin DOMAIN stores
                     THEN \* findOne raises NotFound
                          [o EXCEPT !.pc = "done",
                                    !.response = [NoResponse EXCEPT !.status = 404, !.thrown = TRUE]]
                     ELSE IF invalidFormat(from, to) \/ invalidOrder(from, to)
                     THEN [o EXCEPT !.pc = "done",
                                    !.response = [NoResponse EXCEPT !.status = 400]]
                     ELSE [o EXCEPT !.pc = "fetch", !.from = from, !.to = to]
            /\ iter' = started(storeId)
    /\ runs' = runs + 1
    /\ UNCHANGED <<others, products, traffic, fbCall, stores, metrics, auditLog>>

\* the Promise.all and merge of dailySync and of rangeSync; a rejection
\* leaves the handler as an exception
manualFetch(adDates) ==
    /\ op.kind \in {"dailySync", "rangeSync"}
    /\ op.pc = "fetch"
    /\ \E sApi \in ShopifyApi(op.from, op.to),
          fApi \in FbApi(stores[op.store], adDates),
          gApi \in GoogleApi(adDates) :
         LET r == fetchAndMerge(op.store, op.from, op.to, sApi, fApi, gApi)
         IN /\ auditLog' = log(auditLog, r.audit)
            /\ iter' = r.iter
            /\ op' = IF r.threw
                     THEN [op EXCEPT !.pc = "done",
                                     !.response = [NoResponse EXCEPT !.status = 500, !.thrown = TRUE]]
                     ELSE [op EXCEPT !.pc = "upsert", !.queue = r.merged, !.count = 0]
    /\ UNCHANGED <<others, products, traffic, fbCall, stores, metrics, runs>>

manualRespond ==
    /\ op.kind \in {"dailySync", "rangeSync"}
    /\ op.pc = "upsert"
    /\ op.queue = <<>>
    /\ op' = [op EXCEPT !.pc = "done",
                        !.response = [NoResponse EXCEPT !.status = 200,
                                                        !.daysProcessed = op.count]]
    /\ iter' = [iter EXCEPT !.status = "done", !.reported = op.count]
    /\ UNCHANGED <<others, products, traffic, fbCall, stores, metrics, auditLog, runs>>

Next ==
    \/ handleDailySync(MaxRuns)
    \/ jobFetch(AdDates(op.from, op.to))
    \/ jobStoreDone
    \/ dailySync(MaxRuns)
    \/ rangeSync(MaxRuns)
    \/ manualFetch(AdDates(op.from, op.to))
    \/ manualRespond
    \/ upsertStep
    \/ return

Spec == Init /\ [][Next]_vars

\* The same handlers when the ad vendors may answer with rows of any date,
\* inside the queried range or not.
NextMerge ==
    \/ handleDailySync(MaxMergeRuns)
    \/ jobFetch(Dates)
    \/ jobStoreDone
    \/ dailySync(MaxMergeRuns)
    \/ rangeSync(MaxMergeRuns)
    \/ manualFetch(Dates)
    \/ manualRespond
    \/ upsertStep
    \/ return

\* the first store may lack a credential set
InitCreds ==
    \E c \in [Stores -> CredConfigs] :
        /\ \A s \in Stores : s > 1 => c[s] = FullCreds
        /\ InitWith(c)

SpecMerge == InitCreds /\ [][NextMerge]_vars

\* ---------------------------------------------- product sync handlers
ProductJobs == {"handleDailyProductSync", "handleMonthlyFullSync"}
ProductKinds == ProductJobs \cup {"syncProductAnalytics"}

\* const stores = await this.storesService.findAll(); for (const store of stores)
startJob(kind, firstPc) ==
    LET list == findAll
    IN [Idle EXCEPT !.kind = kind,
                    !.pc = IF list = <<>> THEN "done" ELSE firstPc,
                    !.list = list, !.idx = 1]

handleDailyProductSync(limit) ==
    /\ op.kind = "idle"
    /\ runs < limit
    /\ op' = startJob("handleDailyProductSync", "reset")
    /\ runs' = runs + 1
    /\ iter' = NoIter
    /\ UNCHANGED <<others, products, traffic, fbCall, stores, metrics, auditLog>>

handleMonthlyFullSync(limit) ==
    /\ op.kind = "idle"
    /\ runs < limit
    /\ op' = startJob("handleMonthlyFullSync", "reset")
    /\ runs' = runs + 1
    /\ iter' = NoIter
    /\ UNCHANGED <<others, products, traffic, fbCall, stores, metrics, auditLog>>

\* const store = await this.storesService.findOne(storeId)
syncProductAnalytics(limit) ==
    /\ op.kind = "idle"
    /\ runs < limit
    /\ \E storeId \in StoreIdInputs :
         op' = IF storeId \notin DOMAIN stores
               THEN [Idle EXCEPT !.kind = "syncProductAnalytics", !.pc = "done",
                                 !.store = storeId,
                                 !.response = [NoResponse EXCEPT !.status = 404, !.thrown = TRUE]]
               ELSE [Idle EXCEPT !.kind = "syncProductAnalytics", !.pc = "reset",
                                 !.store = storeId]
    /\ runs' = runs + 1
    /\ iter' = NoIter
    /\ UNCHANGED <<others, products, traffic, fbCall, stores, metrics, auditLog>>

\* the store a handler is working on
currentStore == IF op.list # <<>> THEN op.list[op.idx] ELSE op.store

\* await this.productMetricsService.resetStoreProducts(storeId)
productReset ==
    /\ op.kind \in ProductKinds
    /\ op.pc = "reset"
    /\ products' = resetStoreProducts(products, currentStore)
    /\ iter' = startedOn(currentStore, products)
    /\ op' = [op EXCEPT !.pc = "fetch", !.store = currentStore]
    /\ UNCHANGED <<others, traffic, fbCall, stores, metrics, auditLog, runs>>

\* const products = await this.shopifyService.fetchProductSales(store, ...);
\* a rejection is caught by the job's loop and leaves the controller as an
\* exception
productFetch ==
    /\ op.kind \in ProductKinds
    /\ op.pc = "fetch"
    /\ \E api \in ProductSalesApi :
         LET r == fetchProductSales(op.store, api)
         IN /\ auditLog' = log(auditLog, r.audit)
            /\ iter' = [iter EXCEPT !.status = IF r.threw THEN "failed" ELSE "upserting",
                                    !.batch = r.data, !.audit = r.audit]
            /\ op' = IF ~r.threw
                     THEN [op EXCEPT !.pc = "upsert", !.queue = r.data, !.count = 0]
                     ELSE IF op.kind \in ProductJobs
                     THEN catchInLoop(op, "reset")
                     ELSE [op EXCEPT !.pc = "done",
                                     !.response = [NoResponse EXCEPT !.status = 500,
                                                                     !.thrown = TRUE]]
    /\ UNCHANGED <<others, products, traffic, fbCall, stores, metrics, runs>>

\* for (const product of products) { await upsertProductMetric({...}); count++ }
productUpsert ==
    /\ op.kind \in ProductKinds
    /\ op.pc = "upsert"
    /\ op.queue # <<>>
    /\ LET product == Head(op.queue)
           input == [storeId |-> op.store, productId |-> product.productId,
                     productName |-> product.productName,
                     quantitySold |-> product.quantitySold,
                     revenue |-> product.revenue]
       IN /\ products' = upsertProductMetric(products, input)
          /\ iter' = [iter EXCEPT !.issued = Append(iter.issued, input)]
    /\ op' = [op EXCEPT !.queue = Tail(op.queue), !.count = op.count + 1]
    /\ UNCHANGED <<others, traffic, fbCall, stores, metrics, auditLog, runs>>

productStoreDone ==
    /\ op.kind \in ProductJobs
    /\ op.pc = "upsert"
    /\ op.queue = <<>>
    /\ op' = afterStore(op, "reset")
    /\ iter' = [iter EXCEPT !.status = "done", !.reported = op.count]
    /\ UNCHANGED <<others, products, traffic, fbCall, stores, metrics, auditLog, runs>>

productRespond ==
    /\ op.kind = "syncProductAnalytics"
    /\ op.pc = "upsert"
    /\ op.queue = <<>>
    /\ op' = [op EXCEPT !.pc = "done",
                        !.response = [NoResponse EXCEPT !.status = 200,
                                                        !.daysProcessed = op.count]]
    /\ iter' = [iter EXCEPT !.status = "done", !.reported = op.count]
    /\ UNCHANGED <<others, products, traffic, fbCall, stores, metrics, auditLog, runs>>

NextProduct ==
    \/ handleDailyProductSync(MaxRuns)
    \/ handleMonthlyFullSync(MaxRuns)
    \/ syncProductAnalytics(MaxRuns)
    \/ productReset
    \/ productFetch
    \/ productUpsert
    \/ productStoreDone
    \/ productRespond
    \/ return

SpecProduct == Init /\ [][NextProduct]_vars

\* ------------------------------------- product syncs that overlap in time
\* Each handler is an async function: between two of its awaits the other
\* handler's steps can run. Nothing in the job or the controller keeps a
\* second product sync of a store from starting while one is in progress.
besideSyncs ==
    <<call, upserts, inflight, insight, google, agg, auditQuery, authVars, orders, insights,
      removeRace, access, pwd, traffic, fbCall, stores, metrics, op, iter, runs>>

\* the store process p is working on
storeOf(p) ==
    IF syncs[p].o.list # <<>> THEN syncs[p].o.list[syncs[p].o.idx] ELSE syncs[p].o.store

\* @Cron handleDailyProductSync in process p
overlapJob(p) ==
    /\ syncs[p].o.kind = "idle"
    /\ syncs' = [syncs EXCEPT ![p].o = startJob("handleDailyProductSync", "reset")]
    /\ UNCHANGED <<besideSyncs, products, auditLog>>

\* POST stores/:storeId/sync-products in process p
overlapManual(p) ==
    /\ syncs[p].o.kind = "idle"
    /\ \E storeId \in StoreIdInputs :
         syncs' = [syncs EXCEPT ![p].o =
                     IF storeId \notin DOMAIN stores
                     THEN [Idle EXCEPT !.kind = "syncProductAnalytics", !.pc = "done",
                                       !.store = storeId,
                                       !.response = [NoResponse EXCEPT !.status = 404,
                                                                       !.thrown = TRUE]]
                     ELSE [Idle EXCEPT !.kind = "syncProductAnalytics", !.pc = "reset",
                                       !.store = storeId]]
    /\ UNCHANGED <<besideSyncs, products, auditLog>>

\* await this.productMetricsService.resetStoreProducts(storeId)
overlapReset(p) ==
    /\ syncs[p].o.kind \in ProductKinds
    /\ syncs[p].o.pc = "reset"
    /\ products' = resetStoreProducts(products, storeOf(p))
    /\ syncs' = [syncs EXCEPT ![p].o.pc = "fetch", ![p].o.store = storeOf(p),
                              ![p].fetched = <<>>]
    /\ UNCHANGED <<besideSyncs, auditLog>>

\* await this.shopifyService.fetchProductSales(store, from, to)
overlapFetch(p) ==
    /\ syncs[p].o.kind \in ProductKinds
    /\ syncs[p].o.pc = "fetch"
    /\ \E api \in ProductSalesApi :
         LET r == fetchProductSales(syncs[p].o.store, api)
             o == syncs[p].o
         IN /\ auditLog' = log(auditLog, r.audit)
            /\ syncs' = [syncs EXCEPT
                  ![p].fetched = r.data,
                  ![p].o = IF ~r.threw
                           THEN [o EXCEPT !.pc = "upsert", !.queue = r.data, !.count = 0]
                           ELSE IF o.kind \in ProductJobs
                           THEN catchInLoop(o, "reset")
                           ELSE [o EXCEPT !.pc = "done",
                                          !.caught = {o.store},
                                          !.response = [NoResponse EXCEPT !.status = 500,
                                                                          !.thrown = TRUE]]]
    /\ UNCHANGED <<besideSyncs, products>>

\* one turn of for (const product of products) { await upsertProductMetric }
overlapUpsert(p) ==
    /\ syncs[p].o.kind \in ProductKinds
    /\ syncs[p].o.pc = "upsert"
    /\ syncs[p].o.queue # <<>>
    /\ LET product == Head(syncs[p].o.queue)
           input == [storeId |-> syncs[p].o.store, productId |-> product.productId,
                     productName |-> product.productName,
                     quantitySold |-> product.quantitySold,
                     revenue |-> product.revenue]
       IN products' = upsertProductMetric(products, input)
    /\ syncs' = [syncs EXCEPT ![p].o.queue = Tail(@), ![p].o.count = @ + 1]
    /\ UNCHANGED <<besideSyncs, auditLog>>

\* the loop over the batch has ended: the job goes on with the next store
overlapStoreDone(p) ==
    /\ syncs[p].o.kind \in ProductJobs
    /\ syncs[p].o.pc = "upsert"
    /\ syncs[p].o.queue = <<>>
    /\ syncs' = [syncs EXCEPT
          ![p].o = afterStore(@, "reset"),
          ![p].batches = @ \cup {[store |-> syncs[p].o.store, batch |-> syncs[p].fetched]}]
    /\ UNCHANGED <<besideSyncs, products, auditLog>>

\* the loop over the batch has ended: the controller answers
overlapRespond(p) ==
    /\ syncs[p].o.kind = "syncProductAnalytics"
    /\ syncs[p].o.pc = "upsert"
    /\ syncs[p].o.queue = <<>>
    /\ syncs' = [syncs EXCEPT
          ![p].o.pc = "done",
          ![p].o.response = [NoResponse EXCEPT !.status = 200,
                                               !.daysProcessed = syncs[p].o.count],
          ![p].batches = @ \cup {[store |-> syncs[p].o.store, batch |-> syncs[p].fetched]}]
    /\ UNCHANGED <<besideSyncs, products, auditLog>>

NextOverlap ==
    \/ overlapJob(Scheduler)
    \/ \E p \in Syncers : overlapManual(p)
    \/ \E p \in Syncers : overlapReset(p)
    \/ \E p \in Syncers : overlapFetch(p)
    \/ \E p \in Syncers : overlapUpsert(p)
    \/ \E p \in Syncers : overlapStoreDone(p)
    \/ \E p \in Syncers : overlapRespond(p)

SpecOverlap == Init /\ [][NextOverlap]_vars

\* ------------------------------- a store removed while a sync job runs
\* StoresController.remove is served while handleDailySync is between two
\* of its awaits. The job works on the store documents findAll() returned
\* and does not read the stores collection again.
besideRace ==
    <<call, upserts, inflight, insight, google, agg, auditQuery, authVars, orders, insights,
      syncs, access, pwd, products, traffic, fbCall>>

\* const stores = await this.storesService.findAll(); for (const store of stores)
raceDailySync(limit) ==
    /\ op.kind = "idle"
    /\ runs < limit
    /\ \E y \in Dates :
         LET yesterday == newDate(y)
             list == findAll
         IN op' = [Idle EXCEPT !.kind = "handleDailySync",
                               !.pc = IF list = <<>> THEN "done" ELSE "fetch",
                               !.list = list, !.idx = 1,
                               !.from = yesterday, !.to = yesterday]
    /\ removeRace' = [removeRace EXCEPT !.docs = stores]
    /\ runs' = runs + 1
    /\ iter' = started(0)
    /\ UNCHANGED <<besideRace, stores, metrics, auditLog>>

\* the three vendor fetches of one store, with the credentials of the
\* document the job holds
raceFetch(adDates) ==
    /\ op.kind = "handleDailySync"
    /\ op.pc = "fetch"
    /\ LET storeId == op.list[op.idx]
       IN \E sApi \in ShopifyApi(op.from, op.to),
             fApi \in FbApi(removeRace.docs[storeId], adDates),
             gApi \in GoogleApi(adDates) :
            LET r == fetchAndMergeOf(removeRace.docs[storeId], storeId, op.from, op.to, sApi, fApi, gApi)
            IN /\ auditLog' = log(auditLog, r.audit)
               /\ iter' = r.iter
               /\ op' = IF r.threw THEN catchInLoop(op, "fetch")
                        ELSE [op EXCEPT !.pc = "upsert", !.store = storeId,
                                        !.queue = r.merged, !.count = 0]
    /\ UNCHANGED <<besideRace, removeRace, stores, metrics, runs>>

\* for (const metric of metricsByDate.values()) { await createOrUpdate(metric) }
raceUpsert ==
    /\ op.kind = "handleDailySync"
    /\ op.pc = "upsert"
    /\ op.queue # <<>>
    /\ metrics' = createOrUpdate(metrics, Head(op.queue))
    /\ op' = [op EXCEPT !.queue = Tail(op.queue), !.count = op.count + 1]
    /\ iter' = [iter EXCEPT !.issued = Append(iter.issued, Head(op.queue))]
    /\ UNCHANGED <<besideRace, removeRace, stores, auditLog, runs>>

raceStoreDone ==
    /\ op.kind = "handleDailySync"
    /\ op.pc = "upsert"
    /\ op.queue = <<>>
    /\ op' = afterStore(op, "fetch")
    /\ iter' = [iter EXCEPT !.status = "done", !.reported = op.count]
    /\ UNCHANGED <<besideRace, removeRace, stores, metrics, auditLog, runs>>

\* the job has returned
raceReturn ==
    /\ op.pc = "done"
    /\ op' = Idle
    /\ iter' = NoIter
    /\ UNCHANGED <<besideRace, removeRace, stores, metrics, auditLog, runs>>

\* const store = await this.storeModel.findByIdAndDelete(id).exec();
\* if (!store) throw new NotFoundException
raceRemove ==
    /\ removeRace.pc = "idle"
    /\ \E id \in StoreIdInputs :
         IF id \notin DOMAIN stores
         THEN /\ removeRace' = [removeRace EXCEPT !.pc = "done", !.store = id, !.status = 404]
              /\ UNCHANGED stores
         ELSE /\ removeRace' = [removeRace EXCEPT !.pc = "cascade", !.store = id]
              /\ stores' = [st \in DOMAIN stores \ {id} |-> stores[st]]
    /\ UNCHANGED <<besideRace, op, iter, metrics, auditLog, runs>>

\* await this.auditService.log({...}); await this.metricsService.deleteByStoreId(id)
raceRemoveCascade ==
    /\ removeRace.pc = "cascade"
    /\ auditLog' = log(auditLog, <<auditEntry("STORE_CREATED", "SUCCESS", 0)>>)
    /\ metrics' = deleteByStoreId(metrics, removeRace.store)
    /\ removeRace' = [removeRace EXCEPT !.pc = "done", !.status = 200]
    /\ UNCHANGED <<besideRace, op, iter, stores, runs>>

NextRemoveRace ==
    \/ raceDailySync(MaxRaceRuns)
    \/ raceFetch(AdDates(op.from, op.to))
    \/ raceUpsert
    \/ raceStoreDone
    \/ raceReturn
    \/ raceRemove
    \/ raceRemoveCascade

SpecRemoveRace == Init /\ [][NextRemoveRace]_vars

\* ---------------------------------------------- traffic sync handlers
TrafficJobs == {"handleDailyTrafficSync", "handleWeeklyExtendedSync"}
TrafficKinds == TrafficJobs \cup {"syncTrafficAnalytics"}

\* startDate.setDate(startDate.getDate() - daysBack); startDate.setHours(0, 0, 0, 0)
windowStart(today, daysBack) == (today - daysBack) * DayMs
\* endDate.setHours(23, 59, 59, 999)
windowEnd(today) == today * DayMs + (DayMs - 1)

\* const daysBack = 7 / const daysBack = 30 / days && days > 0 ? days : 7
daysBackOf(kind, days) ==
    IF kind = "handleWeeklyExtendedSync" THEN WeeklyDaysBack
    ELSE IF kind = "syncTrafficAnalytics" /\ days > 0 THEN days
    ELSE DefaultDaysBack

handleDailyTrafficSync(limit) ==
    /\ op.kind = "idle"
    /\ runs < limit
    /\ op' = startJob("handleDailyTrafficSync", "reset")
    /\ runs' = runs + 1
    /\ iter' = NoIter
    /\ UNCHANGED <<others, products, traffic, fbCall, stores, metrics, auditLog>>

handleWeeklyExtendedSync(limit) ==
    /\ op.kind = "idle"
    /\ runs < limit
    /\ op' = startJob("handleWeeklyExtendedSync", "reset")
    /\ runs' = runs + 1
    /\ iter' = NoIter
    /\ UNCHANGED <<others, products, traffic, fbCall, stores, metrics, auditLog>>

\* const store = await this.storesService.findOne(storeId); count carries
\* the days parameter until the upsert loop starts
syncTrafficAnalytics(limit) ==
    /\ op.kind = "idle"
    /\ runs < limit
    /\ \E storeId \in StoreIdInputs, days \in DaysInputs :
         op' = IF storeId \notin DOMAIN stores
               THEN [Idle EXCEPT !.kind = "syncTrafficAnalytics", !.pc = "done",
                                 !.store = storeId,
                                 !.response = [NoResponse EXCEPT !.status = 404, !.thrown = TRUE]]
               ELSE [Idle EXCEPT !.kind = "syncTrafficAnalytics", !.pc = "reset",
                                 !.store = storeId, !.count = days]
    /\ runs' = runs + 1
    /\ iter' = NoIter
    /\ UNCHANGED <<others, products, traffic, fbCall, stores, metrics, auditLog>>

\* the window is computed from the clock, then
\* await this.trafficMetricsService.resetStoreTraffic(storeId, startDate)
trafficReset ==
    /\ op.kind \in TrafficKinds
    /\ op.pc = "reset"
    /\ \E today \in Todays :
         LET startDate == windowStart(today, daysBackOf(op.kind, op.count))
         IN /\ traffic' = resetStoreTraffic(traffic, currentStore, startDate)
            /\ op' = [op EXCEPT !.pc = "fetch", !.store = currentStore,
                                !.from = startDate, !.to = windowEnd(today)]
    /\ iter' = startedOn(currentStore, traffic)
    /\ UNCHANGED <<others, products, fbCall, stores, metrics, auditLog, runs>>

\* const trafficData = await this.shopifyService.fetchTrafficAnalytics(...)
trafficFetch ==
    /\ op.kind \in TrafficKinds
    /\ op.pc = "fetch"
    /\ \E api \in TrafficApi :
         LET r == fetchTrafficAnalytics(op.store, api)
         IN /\ auditLog' = log(auditLog, r.audit)
            /\ iter' = [iter EXCEPT !.status = IF r.threw THEN "failed" ELSE "upserting",
                                    !.batch = r.data, !.audit = r.audit]
            /\ op' = IF ~r.threw
                     THEN [op EXCEPT !.pc = "upsert", !.queue = r.data, !.count = 0]
                     ELSE IF op.kind \in TrafficJobs
                     THEN catchInLoop(op, "reset")
                     ELSE [op EXCEPT !.pc = "done",
                                     !.response = [NoResponse EXCEPT !.status = 500,
                                                                     !.thrown = TRUE]]
    /\ UNCHANGED <<others, products, traffic, fbCall, stores, metrics, runs>>

\* for (const page of trafficData) { await upsertTrafficMetric({...}); count++ }
trafficUpsert ==
    /\ op.kind \in TrafficKinds
    /\ op.pc = "upsert"
    /\ op.queue # <<>>
    /\ LET page == Head(op.queue)
           input == [storeId |-> op.store,
                     landingPageType |-> page.landingPageType,
                     landingPagePath |-> page.landingPagePath,
                     onlineStoreVisitors |-> page.onlineStoreVisitors,
                     sessions |-> page.sessions,
                     sessionsWithCartAdditions |-> page.sessionsWithCartAdditions,
                     sessionsThatReachedCheckout |-> page.sessionsThatReachedCheckout,
                     startDate |-> op.from, endDate |-> op.to]
       IN /\ traffic' = upsertTrafficMetric(traffic, input)
          /\ iter' = [iter EXCEPT !.issued = Append(iter.issued, input)]
    /\ op' = [op EXCEPT !.queue = Tail(op.queue), !.count = op.count + 1]
    /\ UNCHANGED <<others, products, fbCall, stores, metrics, auditLog, runs>>

trafficStoreDone ==
    /\ op.kind \in TrafficJobs
    /\ op.pc = "upsert"
    /\ op.queue = <<>>
    /\ op' = afterStore(op, "reset")
    /\ iter' = [iter EXCEPT !.status = "done", !.reported = op.count]
    /\ UNCHANGED <<others, products, traffic, fbCall, stores, metrics, auditLog, runs>>

trafficRespond ==
    /\ op.kind = "syncTrafficAnalytics"
    /\ op.pc = "upsert"
    /\ op.queue = <<>>
    /\ op' = [op EXCEPT !.pc = "done",
                        !.response = [NoResponse EXCEPT !.status = 200,
                                                        !.daysProcessed = op.count]]
    /\ iter' = [iter EXCEPT !.status = "done", !.reported = op.count]
    /\ UNCHANGED <<others, products, traffic, fbCall, stores, metrics, auditLog, runs>>

NextTraffic ==
    \/ handleDailyTrafficSync(MaxRuns)
    \/ handleWeeklyExtendedSync(MaxRuns)
    \/ syncTrafficAnalytics(MaxRuns)
    \/ trafficReset
    \/ trafficFetch
    \/ trafficUpsert
    \/ trafficStoreDone
    \/ trafficRespond
    \/ return

SpecTraffic == Init /\ [][NextTraffic]_vars

\* ------------------------------------------ FacebookService.callFacebook
\* what axios.get can settle with: a body, or an error carrying a Graph API
\* error code; NoErrorBody stands for a failure without a response
FbResponses ==
    {[ok |-> TRUE, code |-> NoErrorBody, rows |-> rows] :
        rows \in {<<>>, <<[date_start |-> 1, spend |-> 50]>>}} \cup
    {[ok |-> FALSE, code |-> c, rows |-> <<>>] :
        c \in {RateLimitCode, NoErrorBody} \cup OtherErrorCodes}

\* a retry on every rate-limit answer, however many came before
shouldRetry_Unbounded(code, retry) == code = RateLimitCode

\* if (errData?.error?.code === 17 && retry < 3)
shouldRetry(code, retry) == code = RateLimitCode /\ retry < MaxRetries

\* FacebookService.fetchAdSpend up to its call of callFacebook(url, params),
\* whose retry parameter takes its default
fetchAdSpendCall(limit) ==
    /\ fbCall.pc = "idle"
    /\ op.kind = "idle"
    /\ runs < limit
    /\ \E storeId \in DOMAIN stores :
         /\ stores[storeId].fbAccountId
         /\ auditLog' = log(auditLog, <<auditEntry("FACEBOOK_SYNC_STARTED", "PENDING", storeId)>>)
         /\ fbCall' = [FbIdle EXCEPT !.pc = "request", !.store = storeId]
    /\ runs' = runs + 1
    /\ UNCHANGED <<others, products, traffic, stores, metrics, op, iter>>

\* one activation of callFacebook: the request settles, and the activation
\* returns the body, starts the wait before a retry, or throws
callFacebook ==
    /\ fbCall.pc = "request"
    /\ \E res \in FbResponses :
         fbCall' = [fbCall EXCEPT
                      !.requests = @ + 1,
                      !.codes = IF res.ok THEN @ ELSE Append(@, res.code),
                      !.rows = res.rows,
                      !.pc = IF res.ok THEN "returned"
                             ELSE IF shouldRetry(res.code, fbCall.retry) THEN "sleep"
                             ELSE "raised"]
    /\ UNCHANGED <<others, products, traffic, stores, metrics, auditLog, op, iter, runs>>

\* await new Promise((res) => setTimeout(res, 2000));
\* return this.callFacebook(url, params, retry + 1)
retryAfterDelay ==
    /\ fbCall.pc = "sleep"
    /\ fbCall' = [fbCall EXCEPT !.waitedMs = @ + RetryDelayMs,
                                !.retry = @ + 1,
                                !.pc = "request"]
    /\ UNCHANGED <<others, products, traffic, stores, metrics, auditLog, op, iter, runs>>

\* the rest of fetchAdSpend: an empty answer returns [] at once, rows are
\* audited as a success, an error is audited as a failure and rethrown
fetchAdSpendSettle ==
    /\ fbCall.pc \in {"returned", "raised"}
    /\ auditLog' =
         IF fbCall.pc = "raised"
         THEN log(auditLog, <<auditEntry("FACEBOOK_SYNC_FAILED", "FAILURE", fbCall.store)>>)
         ELSE IF fbCall.rows = <<>> THEN auditLog
         ELSE log(auditLog, <<auditEntry("FACEBOOK_DATA_FETCHED", "SUCCESS", fbCall.store)>>)
    /\ fbCall' = FbIdle
    /\ UNCHANGED <<others, products, traffic, stores, metrics, op, iter, runs>>

NextFb ==
    \/ fetchAdSpendCall(MaxFbCalls)
    \/ callFacebook
    \/ retryAfterDelay
    \/ fetchAdSpendSettle

\* a request that was sent settles, a timer that was set fires, and a
\* settled promise resumes its awaiter
SpecFb ==
    /\ Init
    /\ [][NextFb]_vars
    /\ WF_vars(callFacebook)
    /\ WF_vars(retryAfterDelay)
    /\ WF_vars(fetchAdSpendSettle)

\* ------------------------------------------------------ the scheduled jobs
Jobs == {"handleDailySync"} \cup ProductJobs \cup TrafficJobs

\* the steps of a job that has started
JobStep ==
    \/ jobFetch(AdDates(op.from, op.to))
    \/ upsertStep
    \/ jobStoreDone
    \/ productReset
    \/ productFetch
    \/ productUpsert
    \/ productStoreDone
    \/ trafficReset
    \/ trafficFetch
    \/ trafficUpsert
    \/ trafficStoreDone
    \/ return

NextJobs ==
    \/ handleDailySync(MaxJobRuns)
    \/ handleDailyProductSync(MaxJobRuns)
    \/ handleMonthlyFullSync(MaxJobRuns)
    \/ handleDailyTrafficSync(MaxJobRuns)
    \/ handleWeeklyExtendedSync(MaxJobRuns)
    \/ jobFetch(AdDates(op.from, op.to))
    \/ upsertStep
    \/ jobStoreDone
    \/ productReset
    \/ productFetch
    \/ productUpsert
    \/ productStoreDone
    \/ trafficReset
    \/ trafficFetch
    \/ trafficUpsert
    \/ trafficStoreDone
    \/ return

\* every awaited vendor call and database operation of a running job
\* settles, so a job that can take a step eventually takes one
SpecJobs == Init /\ [][NextJobs]_vars /\ WF_vars(JobStep)

\* ------------------------------------- vendor calls and the audit store
\* Every client awaits its log calls inside its own body, so a log call
\* that raised would reject the client's promise.
SaveOutcomes == [1..MaxLogCalls -> BOOLEAN]

auditedCall(client, storeId, r, saves) ==
    LET logged == auditLogSaveAll(auditLog, r.audit, saves)
    IN /\ auditLog' = logged.coll
       /\ call' = [client |-> client, store |-> storeId,
                   threw |-> r.threw \/ logged.threw,
                   data |-> IF logged.threw THEN <<>> ELSE r.data,
                   expected |-> [threw |-> r.threw, data |-> r.data, failed |-> r.failed],
                   attempted |-> r.audit,
                   saved |-> SubSeq(saves, 1, Len(r.audit)),
                   logBefore |-> auditLog]
       /\ runs' = runs + 1
       /\ UNCHANGED <<upserts, inflight, insight, google, rest, products, traffic, fbCall, stores, metrics, op, iter>>

callFetchOrders ==
    /\ runs < MaxAuditRuns
    /\ \E storeId \in DOMAIN stores, d \in Dates, saves \in SaveOutcomes :
         \E api \in ShopifyApi(newDate(d), newDate(d)) :
            auditedCall("shopify", storeId,
                        fetchOrders(storeId, newDate(d), newDate(d), api), saves)

callFbFetchAdSpend ==
    /\ runs < MaxAuditRuns
    /\ \E storeId \in DOMAIN stores, d \in Dates, saves \in SaveOutcomes :
         \E api \in FbApi(stores[storeId], {d}) :
            auditedCall("facebook", storeId,
                        fbFetchAdSpend(stores[storeId], storeId, api), saves)

callGoogleFetchAdSpend ==
    /\ runs < MaxAuditRuns
    /\ \E storeId \in DOMAIN stores, d \in Dates, saves \in SaveOutcomes :
         \E api \in GoogleApi({d}) :
            auditedCall("google", storeId,
                        googleFetchAdSpend(stores[storeId], storeId, api), saves)

NextAudit ==
    \/ callFetchOrders
    \/ callFbFetchAdSpend
    \/ callGoogleFetchAdSpend

SpecAudit == InitCreds /\ [][NextAudit]_vars

\* ------------------------------------------- interleaved createOrUpdate
\* what a merged record can carry: two value sets that differ in every field
MetricInputs ==
    {[storeId |-> st, date |-> newDate(d),
      facebookMetaSpend |-> v[1], googleAdSpend |-> v[2],
      shopifySoldOrders |-> v[3], shopifyOrderValue |-> v[4],
      shopifySoldItems |-> v[5]] :
        st \in Stores, d \in Dates, v \in {<<50, 30, 1, 40, 2>>, <<70, 10, 3, 90, 5>>}}

keyMatches(coll, input) == {r \in coll : r.storeId = input.storeId /\ r.date = input.date}

\* an insert into a collection without the unique index on (storeId, date)
insertUnique_NoIndex(coll, doc) == [ok |-> TRUE, coll |-> coll \cup {doc}]

\* StoreMetricSchema.index({storeId: 1, date: 1}, {unique: true}): an insert
\* of a second document of a key is refused with a duplicate-key error
insertUnique(coll, doc) ==
    IF keyMatches(coll, doc) # {}
    THEN [ok |-> FALSE, coll |-> coll]
    ELSE [ok |-> TRUE, coll |-> coll \cup {doc}]

\* {$set: {five fields}} applied to the matched document, in one write
setFields(coll, input) ==
    LET r == CHOOSE x \in keyMatches(coll, input) : TRUE
    IN (coll \ {r}) \cup
       {[r EXCEPT !.facebookMetaSpend = input.facebookMetaSpend,
                  !.googleAdSpend = input.googleAdSpend,
                  !.shopifySoldOrders = input.shopifySoldOrders,
                  !.shopifyOrderValue = input.shopifyOrderValue,
                  !.shopifySoldItems = input.shopifySoldItems]}

\* a caller reaches this.metricsService.createOrUpdate(metric)
createOrUpdateCall(c) ==
    /\ upserts[c].pc \in {"idle", "done", "error"}
    /\ runs < MaxUpsertCalls
    /\ \E input \in MetricInputs :
         upserts' = [upserts EXCEPT ![c] = [pc |-> "query", input |-> input,
                                          refused |-> FALSE]]
    /\ runs' = runs + 1
    /\ UNCHANGED <<call, inflight, insight, google, rest, products, traffic, fbCall, stores, metrics, auditLog, op, iter>>

\* findOneAndUpdate, the query: a matching document is modified in the same
\* atomic operation; with none, the upsert goes on to insert
findOneAndUpdateMatch(c) ==
    /\ upserts[c].pc = "query"
    /\ IF keyMatches(metrics, upserts[c].input) # {}
       THEN /\ metrics' = setFields(metrics, upserts[c].input)
            /\ upserts' = [upserts EXCEPT ![c].pc = "done"]
       ELSE /\ upserts' = [upserts EXCEPT ![c].pc = "insert"]
            /\ UNCHANGED metrics
    /\ UNCHANGED <<call, inflight, insight, google, rest, products, traffic, fbCall, stores, auditLog, op, iter, runs>>

\* findOneAndUpdate, the insert of the upsert: when another insert of the
\* key came first the index refuses this one, and the server either runs
\* the operation again as an update or reports the duplicate-key error
findOneAndUpdateInsert(c) ==
    /\ upserts[c].pc = "insert"
    /\ LET r == insertUnique(metrics, upserts[c].input)
       IN \/ /\ r.ok
             /\ metrics' = r.coll
             /\ upserts' = [upserts EXCEPT ![c].pc = "done"]
          \/ /\ ~r.ok
             /\ upserts' = [upserts EXCEPT ![c].pc = "query", ![c].refused = TRUE]
             /\ UNCHANGED metrics
          \/ /\ ~r.ok
             /\ upserts' = [upserts EXCEPT ![c].pc = "error", ![c].refused = TRUE]
             /\ UNCHANGED metrics
    /\ UNCHANGED <<call, inflight, insight, google, rest, products, traffic, fbCall, stores, auditLog, op, iter, runs>>

NextUpsert ==
    \/ \E c \in Callers : createOrUpdateCall(c)
    \/ \E c \in Callers : findOneAndUpdateMatch(c)
    \/ \E c \in Callers : findOneAndUpdateInsert(c)

SpecUpsert == Init /\ [][NextUpsert]_vars

\* --------------------------- the daily job, one vendor promise at a time
Vendors == {"shopify", "facebook", "google"}

\* the calls a run has started for a store
callsOf(run, storeId) == {c \in inflight : c.run = run /\ c.store = storeId}

\* a combinator that is fulfilled as soon as one call is
promiseAll_Any(cs) ==
    IF \E c \in cs : c.status = "resolved" THEN "resolved"
    ELSE IF \E c \in cs : c.status = "rejected" THEN "rejected"
    ELSE "pending"

\* Promise.all: rejected as soon as one call is, fulfilled when all are
promiseAll(cs) ==
    IF \E c \in cs : c.status = "rejected" THEN "rejected"
    ELSE IF \A c \in cs : c.status = "resolved" THEN "resolved"
    ELSE "pending"

\* the argument list of Promise.all is evaluated: the three clients are
\* called one after the other, each running up to its first await
jobStartCalls ==
    /\ op.kind = "handleDailySync"
    /\ op.pc = "fetch"
    /\ LET storeId == op.list[op.idx]
       IN /\ inflight' = inflight \cup
               {[run |-> runs, store |-> storeId, vendor |-> v,
                 from |-> op.from, to |-> op.to,
                 status |-> "pending", data |-> <<>>] : v \in Vendors}
          /\ op' = [op EXCEPT !.pc = "await", !.store = storeId]
          /\ iter' = started(storeId)
    /\ UNCHANGED <<call, upserts, insight, google, rest, products, traffic, fbCall, stores, metrics, auditLog, runs>>

\* the outcome of a client for the answer of its vendor
clientResult(c, sApi, fApi, gApi) ==
    IF c.vendor = "shopify" THEN fetchOrders(c.store, c.from, c.to, sApi)
    ELSE IF c.vendor = "facebook" THEN fbFetchAdSpend(stores[c.store], c.store, fApi)
    ELSE googleFetchAdSpend(stores[c.store], c.store, gApi)

\* a pending vendor call settles, whether or not the job still awaits it
vendorSettle ==
    /\ \E c \in inflight :
         /\ c.status = "pending"
         /\ \E sApi \in ShopifyApi(c.from, c.to),
               fApi \in FbApi(stores[c.store], AdDates(c.from, c.to)),
               gApi \in GoogleApi(AdDates(c.from, c.to)) :
              LET r == clientResult(c, sApi, fApi, gApi)
              IN /\ inflight' = (inflight \ {c}) \cup
                      {[c EXCEPT !.status = IF r.threw THEN "rejected" ELSE "resolved",
                                 !.data = r.data]}
                 /\ auditLog' = log(auditLog, r.audit)
    /\ UNCHANGED <<call, upserts, insight, google, rest, products, traffic, fbCall, stores, metrics, op, iter, runs>>

dataOf(cs, v) == (CHOOSE c \in cs : c.vendor = v).data

\* await Promise.all([...]) is fulfilled: the merge runs
promiseAllFulfilled ==
    /\ op.kind = "handleDailySync"
    /\ op.pc = "await"
    /\ LET cs == callsOf(runs, op.store)
       IN /\ promiseAll(cs) = "resolved"
          /\ LET merged == metricsByDate(op.store, dataOf(cs, "shopify"),
                                         dataOf(cs, "facebook"), dataOf(cs, "google"))
             IN /\ op' = [op EXCEPT !.pc = "upsert", !.queue = merged, !.count = 0]
                /\ iter' = [iter EXCEPT !.status = "upserting",
                                        !.shopifyData = dataOf(cs, "shopify"),
                                        !.fbData = dataOf(cs, "facebook"),
                                        !.googleSpend = dataOf(cs, "google"),
                                        !.merged = merged]
    /\ UNCHANGED <<others, products, traffic, fbCall, stores, metrics, auditLog, runs>>

\* await Promise.all([...]) is rejected: the catch block logs and the loop
\* goes on, with the store's other calls left to settle on their own
promiseAllRejected ==
    /\ op.kind = "handleDailySync"
    /\ op.pc = "await"
    /\ promiseAll(callsOf(runs, op.store)) = "rejected"
    /\ op' = catchInLoop(op, "fetch")
    /\ iter' = [iter EXCEPT !.status = "failed"]
    /\ UNCHANGED <<others, products, traffic, fbCall, stores, metrics, auditLog, runs>>

NextPromises ==
    \/ handleDailySync(MaxJobRuns)
    \/ jobStartCalls
    \/ vendorSettle
    \/ promiseAllFulfilled
    \/ promiseAllRejected
    \/ upsertStep
    \/ jobStoreDone
    \/ return

SpecPromises == Init /\ [][NextPromises]_vars

\* ---------------------------------------- FacebookService.calculateMetrics
\* A JavaScript number is a finite value counted in hundredths, NaN or
\* Infinity; the finite values here are not negative.  A field of the
\* insight row is absent, a numeric string, the string "Infinity" or a
\* string that is no number.
Num(v) == [kind |-> "num", v |-> v]
NaN == [kind |-> "nan", v |-> 0]
Infinity == [kind |-> "inf", v |-> 0]

Absent == [text |-> "absent", v |-> 0]
FieldInputs ==
    {Absent, [text |-> "junk", v |-> 0], [text |-> "Infinity", v |-> 0]} \cup
    {[text |-> "numeric", v |-> v] : v \in {0, Hundredths \div 2, 3 * Hundredths, 100 * Hundredths}}
Objectives == {"conversions", "link_clicks", ""}

\* parseFloat(field || '0')
parseFloat(f) ==
    IF f.text = "absent" THEN Num(0)
    ELSE IF f.text = "numeric" THEN Num(f.v)
    ELSE IF f.text = "Infinity" THEN Infinity
    ELSE NaN

\* parseInt(field || '0', 10)
parseInt(f) ==
    IF f.text = "absent" THEN Num(0)
    ELSE IF f.text = "numeric" THEN Num((f.v \div Hundredths) * Hundredths)
    ELSE NaN

\* x > 0
gt0(x) == (x.kind = "num" /\ x.v > 0) \/ x.kind = "inf"

\* a || b on numbers: 0 and NaN are falsy
orElse(a, b) == IF a.kind = "nan" \/ (a.kind = "num" /\ a.v = 0) THEN b ELSE a

\* Math.round((a / b) * scale * 100) / 100
roundedRatio(a, b, scale) ==
    IF a.kind = "nan" \/ b.kind = "nan" THEN NaN
    ELSE IF a.kind = "inf" THEN (IF b.kind = "inf" THEN NaN ELSE Infinity)
    ELSE IF b.kind = "inf" THEN Num(0)
    ELSE IF b.v = 0 THEN (IF a.v = 0 THEN NaN ELSE Infinity)
    ELSE Num((2 * a.v * scale * Hundredths + b.v) \div (2 * b.v))

\* a ratio computed whatever its denominator
guarded_Never(cond, value) == value

\* cond ? value : 0
guarded(cond, value) == IF cond THEN value ELSE Num(0)

calculateMetrics(i, objective) ==
    LET spend == parseFloat(i.spend)
        impressions == parseInt(i.impressions)
        clicks == parseInt(i.clicks)
        linkClicks == parseInt(i.inline_link_clicks)
        purchases == parseInt(i.purchases)
        results == IF objective = "conversions" THEN purchases
                   ELSE IF objective = "link_clicks" THEN linkClicks
                   ELSE orElse(purchases, linkClicks)
        resultsValue == parseFloat(i.purchaseValue)
    IN [results |-> results,
        impressions |-> impressions,
        clicks |-> clicks,
        spend |-> spend,
        resultsValue |-> resultsValue,
        costPerResult |-> guarded(gt0(results), roundedRatio(spend, results, 1)),
        cpm |-> guarded(gt0(impressions), roundedRatio(spend, impressions, 1000)),
        cpc |-> guarded(gt0(clicks), roundedRatio(spend, clicks, 1)),
        ctr |-> guarded(gt0(impressions), roundedRatio(clicks, impressions, 100)),
        linkCtr |-> guarded(gt0(impressions), roundedRatio(linkClicks, impressions, 100)),
        resultRoas |-> guarded(gt0(resultsValue) /\ gt0(spend),
                               roundedRatio(resultsValue, spend, 1))]

\* fetchInsights maps a row of the insights answer with calculateMetrics
calculateMetricsCall ==
    /\ runs < MaxCalcRuns
    /\ \E i \in [{"spend", "impressions", "clicks", "inline_link_clicks",
                  "purchases", "purchaseValue"} -> FieldInputs],
          objective \in Objectives :
         insight' = [given |-> TRUE, row |-> i, objective |-> objective,
                     metrics |-> calculateMetrics(i, objective)]
    /\ runs' = runs + 1
    /\ UNCHANGED <<call, upserts, inflight, google, rest, products, traffic, fbCall, stores,
                   metrics, auditLog, op, iter>>

NextCalc == calculateMetricsCall

SpecCalc == Init /\ [][NextCalc]_vars

\* -------------------------------------- GoogleService.getValidAccessToken
\* the others the Google actions leave alone
googleFrame ==
    UNCHANGED <<call, upserts, inflight, insight, rest, products, traffic, fbCall,
                stores, metrics, auditLog, op, iter>>

\* time passes
tick ==
    /\ google.ticks < MaxTicks
    /\ \E d \in {1, BufferMs, HourMs - BufferMs} :
         google' = [google EXCEPT !.now = @ + d, !.ticks = @ + 1]
    /\ UNCHANGED runs
    /\ googleFrame

\* GoogleOAuthController.handleCallback: the tokens of the code exchange are
\* written onto the store; the exchange may carry no refresh token
handleCallback ==
    /\ google.pc \in {"idle", "done"}
    /\ runs < MaxTokenRuns
    /\ \E refresh \in BOOLEAN, life \in {BufferMs, BufferMs + 1, HourMs} :
         google' = [google EXCEPT
                      !.pc = "idle",
                      !.minted = @ + 1,
                      !.doc = [googleAccessToken |-> google.minted + 1,
                               googleRefreshToken |-> refresh,
                               googleTokenExpiry |-> google.now + life]]
    /\ runs' = runs + 1
    /\ googleFrame

\* GoogleOAuthController.disconnectGoogleAds
disconnectGoogleAds ==
    /\ google.pc \in {"idle", "done"}
    /\ runs < MaxTokenRuns
    /\ google.doc # NoTokens
    /\ google' = [google EXCEPT !.pc = "idle", !.doc = NoTokens]
    /\ runs' = runs + 1
    /\ googleFrame

\* a stored token that has not expired
tokenStillValid_NoBuffer(store, now) ==
    store.googleAccessToken # 0 /\ store.googleTokenExpiry > now

\* if (store.googleAccessToken && expiryDate > now + 300000)
tokenStillValid(store, now) ==
    store.googleAccessToken # 0 /\ store.googleTokenExpiry > now + BufferMs

\* getValidAccessToken(store) up to its first await
getValidAccessToken ==
    /\ google.pc \in {"idle", "done"}
    /\ runs < MaxTokenRuns
    /\ LET g == [google EXCEPT !.store = google.doc, !.before = google.doc,
                               !.calledAt = google.now, !.checkedAt = google.now,
                               !.returned = 0, !.refreshed = FALSE]
       IN google' =
            IF ~google.doc.googleRefreshToken
            THEN [g EXCEPT !.pc = "done", !.outcome = "BadRequest"]
            ELSE IF tokenStillValid(google.doc, google.now)
            THEN [g EXCEPT !.pc = "done", !.outcome = "returned",
                           !.returned = google.doc.googleAccessToken]
            ELSE [g EXCEPT !.pc = "refreshing", !.outcome = "none"]
    /\ runs' = runs + 1
    /\ googleFrame

\* await this.googleOAuthService.refreshAccessToken(...) settles: a failure
\* leaves as BadRequest, a new token and its expiry are set on the document
refreshAccessToken ==
    /\ google.pc = "refreshing"
    /\ \/ google' = [google EXCEPT !.pc = "done", !.outcome = "BadRequest"]
       \/ google' = [google EXCEPT
                       !.pc = "saving",
                       !.minted = @ + 1,
                       !.refreshed = TRUE,
                       !.checkedAt = google.now,
                       !.store = [google.store EXCEPT
                                    !.googleAccessToken = google.minted + 1,
                                    !.googleTokenExpiry = google.now + HourMs]]
    /\ UNCHANGED runs
    /\ googleFrame

\* await store.save() settles; return newAccessToken
storeSave ==
    /\ google.pc = "saving"
    /\ \/ google' = [google EXCEPT !.pc = "done", !.outcome = "SaveError"]
       \/ google' = [google EXCEPT !.pc = "done", !.outcome = "returned",
                                   !.doc = google.store,
                                   !.returned = google.store.googleAccessToken]
    /\ UNCHANGED runs
    /\ googleFrame

NextToken ==
    \/ tick
    \/ handleCallback
    \/ disconnectGoogleAds
    \/ getValidAccessToken
    \/ refreshAccessToken
    \/ storeSave

SpecToken == Init /\ [][NextToken]_vars

\* ------------------------------------------------- StoresService.remove
\* const store = await this.storeModel.findByIdAndDelete(id).exec();
\* if (!store) throw new NotFoundException('Store not found')
remove(limit) ==
    /\ op.kind = "idle"
    /\ runs < limit
    /\ \E id \in StoreIdInputs :
         /\ iter' = started(id)
         /\ IF id \notin DOMAIN stores
            THEN /\ op' = [Idle EXCEPT !.kind = "remove", !.pc = "done", !.store = id,
                                       !.response = [NoResponse EXCEPT !.status = 404,
                                                                       !.thrown = TRUE]]
                 /\ UNCHANGED stores
            ELSE /\ op' = [Idle EXCEPT !.kind = "remove", !.pc = "cascade", !.store = id]
                 /\ stores' = [st \in DOMAIN stores \ {id} |-> stores[st]]
    /\ runs' = runs + 1
    /\ UNCHANGED <<others, products, traffic, fbCall, metrics, auditLog>>

\* await this.auditService.log({action: STORE_CREATED, status: SUCCESS,
\* metadata}); await this.metricsService.deleteByStoreId(id)
removeCascade ==
    /\ op.kind = "remove"
    /\ op.pc = "cascade"
    /\ auditLog' = log(auditLog, <<auditEntry("STORE_CREATED", "SUCCESS", 0)>>)
    /\ metrics' = deleteByStoreId(metrics, op.store)
    /\ op' = [op EXCEPT !.pc = "done", !.response = [NoResponse EXCEPT !.status = 200]]
    /\ iter' = [iter EXCEPT !.status = "done"]
    /\ UNCHANGED <<others, products, traffic, fbCall, stores, runs>>

NextRemove ==
    \/ dailySync(MaxRemoveRuns)
    \/ manualFetch(AdDates(op.from, op.to))
    \/ upsertStep
    \/ manualRespond
    \/ remove(MaxRemoveRuns)
    \/ removeCascade
    \/ return

SpecRemove == Init /\ [][NextRemove]_vars

\* ------------------------------------------------ MetricsService.aggregate
\* range strings a query may carry: the five names of daysMap, a name that
\* is not in it, and "" for a parameter that is absent
RangeInputs ==
    {"last7days", "last14days", "last30days", "last60days", "last90days", "lastYear", ""}
\* the days on which a query is made
AggregateTodays == {8, 9, 10}
\* arrays of store ids a caller may pass, and no array at all
StoreIdsInputs == {NoStoreIds} \cup {[given |-> TRUE, ids |-> S] : S \in SUBSET StoreIdInputs}
UserRoles == {"ADMIN", "MANAGER", "VIEWER"}

\* the collections the (storeId, date) unique index admits over MetricInputs
MetricDbs ==
    {D \in SUBSET MetricInputs :
        \A r1 \in D, r2 \in D : (r1.storeId = r2.storeId /\ r1.date = r2.date) => r1 = r2}

\* daysMap[range]: undefined (0 here) for a name that is not a key
daysMap(range) ==
    CASE range = "last7days" -> 7
      [] range = "last14days" -> 14
      [] range = "last30days" -> 30
      [] range = "last60days" -> 60
      [] range = "last90days" -> 90
      [] OTHER -> 0

\* a filter that never carries a date bound
buildDateRangeFilter_NoWindow(range, today) == [dated |-> FALSE, gteDay |-> 0]

\* buildDateRangeFilter(range) as aggregate calls it, without startDate and
\* endDate. from = start of the day `days` days before today; the bound is
\* kept as a day number (date >= from  <=>  day of date >= day of from,
\* from being a start of day)
buildDateRangeFilter(range, today) ==
    IF range # "" /\ daysMap(range) # 0
    THEN [dated |-> TRUE, gteDay |-> today - daysMap(range)]
    ELSE [dated |-> FALSE, gteDay |-> 0]

\* array.reduce((sum, r) => sum + (r[field] || 0), 0), and $sum of a field
RECURSIVE reduceSum(_, _)
reduceSum(S, field) ==
    IF S = {} THEN 0
    ELSE LET r == CHOOSE x \in S : TRUE
         IN r[field] + reduceSum(S \ {r}, field)

aggregate(coll, range, storeIds, today) ==
    LET filter == buildDateRangeFilter(range, today)
        byStore == storeIds.given /\ storeIds.ids # {}
        matched == {r \in coll :
                        /\ filter.dated => toISODate(r.date) >= filter.gteDay
                        /\ byStore => r.storeId \in storeIds.ids}
        group(st) == {r \in matched : r.storeId = st}
        result == {[_id |-> st,
                    facebookMetaSpend |-> reduceSum(group(st), "facebookMetaSpend"),
                    googleAdSpend |-> reduceSum(group(st), "googleAdSpend"),
                    shopifySoldOrders |-> reduceSum(group(st), "shopifySoldOrders"),
                    shopifyOrderValue |-> reduceSum(group(st), "shopifyOrderValue")] :
                        st \in {r.storeId : r \in matched}}
    IN [totalStores |-> Cardinality(result),
        totalAdSpend |-> reduceSum(result, "facebookMetaSpend")
                         + reduceSum(result, "googleAdSpend"),
        totalOrders |-> reduceSum(result, "shopifySoldOrders"),
        totalRevenue |-> reduceSum(result, "shopifyOrderValue"),
        dateRange |-> IF range # "" THEN range ELSE "last30days"]

\* a direct call of the service method
aggregateCall ==
    /\ runs < MaxQueries
    /\ runs' = runs + 1
    /\ \E range \in RangeInputs, storeIds \in StoreIdsInputs, today \in AggregateTodays :
        /\ agg' = [NoAggregate EXCEPT !.pc = "done", !.via = "service", !.range = range,
                                      !.storeIds = storeIds, !.today = today,
                                      !.response = aggregate(metrics, range, storeIds, today)]
        /\ UNCHANGED <<call, upserts, inflight, insight, google, products, traffic, fbCall,
                       stores, metrics, auditLog, op, iter, auditQuery, authVars, later>>

\* ---------------------------------------- MetricsController.getAggregate
\* a controller that hands assignedStores on as it is
getAggregate_NoNullCheck(coll, role, assignedStores, range, today) ==
    aggregate(coll, IF range # "" THEN range ELSE "last30days",
              IF role = "ADMIN" THEN NoStoreIds
              ELSE [given |-> TRUE, ids |-> assignedStores], today)

getAggregate(coll, role, assignedStores, range, today) ==
    LET isAdmin == role = "ADMIN"
    IN IF ~isAdmin /\ assignedStores = {}
       THEN [NoTotals EXCEPT !.dateRange = IF range # "" THEN range ELSE "last30days"]
       ELSE aggregate(coll, IF range # "" THEN range ELSE "last30days",
                      IF isAdmin THEN NoStoreIds
                      ELSE [given |-> TRUE, ids |-> assignedStores], today)

getAggregateCall ==
    /\ runs < MaxQueries
    /\ runs' = runs + 1
    /\ \E role \in UserRoles, assignedStores \in SUBSET StoreIdInputs,
       range \in RangeInputs, today \in AggregateTodays :
        /\ agg' = [NoAggregate EXCEPT !.pc = "done", !.via = "controller", !.role = role,
                                      !.assignedStores = assignedStores, !.range = range,
                                      !.today = today,
                                      !.response = getAggregate(metrics, role, assignedStores,
                                                                range, today)]
        /\ UNCHANGED <<call, upserts, inflight, insight, google, products, traffic, fbCall,
                       stores, metrics, auditLog, op, iter, auditQuery, authVars, later>>

InitAggregate ==
    /\ stores = [s \in Stores |-> FullCreds]
    /\ metrics \in MetricDbs
    /\ products = {}
    /\ traffic = {}
    /\ fbCall = FbIdle
    /\ auditLog = {}
    /\ op = Idle
    /\ iter = NoIter
    /\ runs = 0
    /\ call = NoCall
    /\ upserts = [c \in Callers |-> NoUpsert]
    /\ inflight = {}
    /\ insight = NoInsight
    /\ google = NotConnected
    /\ agg = NoAggregate
    /\ auditQuery = NoAuditQuery
    /\ users = {}
    /\ pendingUsers = {}
    /\ authCalls = [c \in AuthCalls |-> NoAuthCall]
    /\ authNow = 0
    /\ pwd = NoPwd
    /\ access = NoAccess
    /\ removeRace = NoRemoveRace
    /\ syncs = [p \in Syncers |-> NoSync]
    /\ insights = NoInsightsCall
    /\ orders = NoOrdersCall

NextAggregate ==
    \/ aggregateCall
    \/ getAggregateCall

SpecAggregate == InitAggregate /\ [][NextAggregate]_vars

\* ------------------------------------------------ AuditService queries
\* find({storeId}).sort({createdAt: -1}).limit(limit): the model holds fewer
\* entries than the default limit of 50
findByStore(coll, storeId) == {e \in coll : e.storeId = storeId}

auditFindByStore(limit) ==
    /\ op.kind = "idle"
    /\ runs < limit
    /\ \E storeId \in StoreIdInputs :
         auditQuery' = [pc |-> "done", storeId |-> storeId,
                        logs |-> findByStore(auditLog, storeId)]
    /\ runs' = runs + 1
    /\ UNCHANGED <<call, upserts, inflight, insight, google, agg, authVars, later, products,
                   traffic, fbCall, stores, metrics, auditLog, op, iter>>

\* the operations that write audit entries, the one that deletes documents
\* of other collections, and the audit log's reader
NextAuditLog ==
    \/ dailySync(MaxRemoveRuns)
    \/ manualFetch(AdDates(op.from, op.to))
    \/ upsertStep
    \/ manualRespond
    \/ remove(MaxRemoveRuns)
    \/ removeCascade
    \/ auditFindByStore(MaxRemoveRuns)
    \/ return

SpecAuditLog == Init /\ [][NextAuditLog]_vars

\* ------------------------------------------------------------ AuthService
Emails == {"a@x", "b@x"}
StoreNames == {"shopA", "shopB"}
\* values generateOtp() may return
Otps == {1, 2}
Verifiers == {"verifyOtp1", "verifyOtp2"}

nonAuth ==
    <<call, upserts, inflight, insight, google, agg, auditQuery, later, products, traffic,
      fbCall, stores, metrics, op, iter>>

findByEmail(coll, email) == {u \in coll : u.email = email}
findByStoreName(coll, storeName) == {u \in coll : u.storeName = storeName}

\* a users collection without the unique index on email
usersCreate_NoIndex(coll, data) == [threw |-> FALSE, coll |-> coll \cup {data}]

\* UsersService.create: user.save() under the unique index on email
usersCreate(coll, data) ==
    IF findByEmail(coll, data.email) # {}
    THEN [threw |-> TRUE, coll |-> coll]
    ELSE [threw |-> FALSE, coll |-> coll \cup {data}]

ended(c) == authCalls[c].pc \in {"idle", "done", "error"}
raise(c, status) == [authCalls EXCEPT ![c].pc = "error", ![c].status = status]
startAuth(email) == [NoAuthCall EXCEPT !.id = runs + 1, !.email = email]

\* signup up to its two reads of the users collection
signup ==
    /\ ended("signup")
    /\ runs < MaxAuthCalls
    /\ \E email \in Emails, storeName \in StoreNames :
         LET c == [startAuth(email) EXCEPT !.storeName = storeName]
         IN authCalls' =
              [authCalls EXCEPT !["signup"] =
                 IF findByEmail(users, email) # {} \/ findByStoreName(users, storeName) # {}
                 THEN [c EXCEPT !.pc = "error", !.status = 409]
                 ELSE [c EXCEPT !.pc = "deleteMany"]]
    /\ runs' = runs + 1
    /\ UNCHANGED <<nonAuth, auditLog, users, pendingUsers, authNow>>

\* const otp = this.generateOtp(); otpExpiresAt = now + 10 minutes;
\* await this.pendingUserModel.deleteMany({ email: dto.email })
signupDeleteMany ==
    /\ authCalls["signup"].pc = "deleteMany"
    /\ \E otp \in Otps :
         authCalls' = [authCalls EXCEPT !["signup"].pc = "create", !["signup"].otp = otp,
                                        !["signup"].otpExpiresAt = authNow + OtpMinutes]
    /\ pendingUsers' = {q \in pendingUsers : q.email # authCalls["signup"].email}
    /\ UNCHANGED <<nonAuth, auditLog, users, authNow, runs>>

\* await this.pendingUserModel.create({...}) under the unique index on
\* email, then the USER_SIGNUP audit entry and the response
signupCreate ==
    /\ authCalls["signup"].pc = "create"
    /\ LET c == authCalls["signup"]
           doc == [id |-> c.id, email |-> c.email, storeName |-> c.storeName,
                   otp |-> c.otp, otpExpiresAt |-> c.otpExpiresAt]
       IN IF findByEmail(pendingUsers, c.email) # {}
          THEN /\ authCalls' = raise("signup", 500)
               /\ UNCHANGED <<pendingUsers, auditLog>>
          ELSE /\ pendingUsers' = pendingUsers \cup {doc}
               /\ auditLog' = log(auditLog, <<auditEntry("USER_SIGNUP", "SUCCESS", 0)>>)
               /\ authCalls' = [authCalls EXCEPT !["signup"].pc = "done",
                                                 !["signup"].status = 201]
    /\ UNCHANGED <<nonAuth, users, authNow, runs>>

\* verifyOtp up to the expiry check: findOne({email, otp, isVerified: false}),
\* then new Date() > pendingUser.otpExpiresAt
verifyOtp(v) ==
    /\ ended(v)
    /\ runs < MaxAuthCalls
    /\ \E email \in Emails, otp \in Otps :
         LET c == [startAuth(email) EXCEPT !.otp = otp, !.checkedAt = authNow]
             matches == {q \in pendingUsers : q.email = email /\ q.otp = otp}
         IN authCalls' =
              [authCalls EXCEPT ![v] =
                 IF matches = {} THEN [c EXCEPT !.pc = "error", !.status = 400]
                 ELSE LET pendingUser == CHOOSE q \in matches : TRUE
                      IN IF authNow > pendingUser.otpExpiresAt
                         THEN [c EXCEPT !.pc = "error", !.status = 400,
                                        !.found = pendingUser]
                         ELSE [c EXCEPT !.pc = "findByEmail", !.found = pendingUser]]
    /\ runs' = runs + 1
    /\ UNCHANGED <<nonAuth, auditLog, users, pendingUsers, authNow>>

\* const existingUser = await this.usersService.findByEmail(dto.email);
\* if (existingUser) { deleteOne({email}); throw new ConflictException }
verifyOtpFindByEmail(v) ==
    /\ authCalls[v].pc = "findByEmail"
    /\ IF findByEmail(users, authCalls[v].email) # {}
       THEN /\ pendingUsers' = {q \in pendingUsers : q.email # authCalls[v].email}
            /\ authCalls' = raise(v, 409)
       ELSE /\ authCalls' = [authCalls EXCEPT ![v].pc = "create"]
            /\ UNCHANGED pendingUsers
    /\ UNCHANGED <<nonAuth, auditLog, users, authNow, runs>>

\* const user = await this.usersService.create({...pendingUser, role: MANAGER})
verifyOtpCreate(v) ==
    /\ authCalls[v].pc = "create"
    /\ LET c == authCalls[v]
           r == usersCreate(users, [id |-> c.id, email |-> c.found.email, role |-> "MANAGER",
                                    storeName |-> c.found.storeName])
       IN /\ users' = r.coll
          /\ authCalls' = IF r.threw THEN raise(v, 500)
                          ELSE [authCalls EXCEPT ![v].pc = "deleteOne"]
    /\ UNCHANGED <<nonAuth, auditLog, pendingUsers, authNow, runs>>

\* the USER_CREATED audit entry, the token, and
\* await this.pendingUserModel.deleteOne({ email: dto.email })
verifyOtpDeleteOne(v) ==
    /\ authCalls[v].pc = "deleteOne"
    /\ auditLog' = log(auditLog, <<auditEntry("USER_CREATED", "SUCCESS", 0)>>)
    /\ pendingUsers' = {q \in pendingUsers : q.email # authCalls[v].email}
    /\ authCalls' = [authCalls EXCEPT ![v].pc = "done", ![v].status = 201]
    /\ UNCHANGED <<nonAuth, users, authNow, runs>>

\* resendOtp up to its reads; the new otp and its expiry are computed before
\* the save is awaited
resendOtp ==
    /\ ended("resendOtp")
    /\ runs < MaxAuthCalls
    /\ \E email \in Emails, otp \in Otps :
         LET c == startAuth(email)
             matches == findByEmail(pendingUsers, email)
         IN authCalls' =
              [authCalls EXCEPT !["resendOtp"] =
                 IF findByEmail(users, email) # {} THEN [c EXCEPT !.pc = "error", !.status = 409]
                 ELSE IF matches = {} THEN [c EXCEPT !.pc = "error", !.status = 400]
                 ELSE [c EXCEPT !.pc = "save", !.otp = otp,
                                !.otpExpiresAt = authNow + OtpMinutes,
                                !.found = CHOOSE q \in matches : TRUE]]
    /\ runs' = runs + 1
    /\ UNCHANGED <<nonAuth, auditLog, users, pendingUsers, authNow>>

\* await pendingUser.save(): updates the document read, and fails when it has
\* been deleted since
resendOtpSave ==
    /\ authCalls["resendOtp"].pc = "save"
    /\ LET c == authCalls["resendOtp"]
           stored == {q \in pendingUsers : q.id = c.found.id}
       IN IF stored = {}
          THEN /\ authCalls' = raise("resendOtp", 500)
               /\ UNCHANGED pendingUsers
          ELSE /\ pendingUsers' =
                    (pendingUsers \ stored)
                    \cup {[q EXCEPT !.otp = c.otp, !.otpExpiresAt = c.otpExpiresAt] : q \in stored}
               /\ authCalls' = [authCalls EXCEPT !["resendOtp"].pc = "done",
                                                 !["resendOtp"].status = 201]
    /\ UNCHANGED <<nonAuth, auditLog, users, authNow, runs>>

\* time passes between the steps of the handlers
minutesPass ==
    /\ authNow < MaxAuthTicks * TickMinutes
    /\ authNow' = authNow + TickMinutes
    /\ UNCHANGED <<nonAuth, auditLog, users, pendingUsers, authCalls, runs>>

NextAuth ==
    \/ signup
    \/ signupDeleteMany
    \/ signupCreate
    \/ \E v \in Verifiers : verifyOtp(v)
    \/ \E v \in Verifiers : verifyOtpFindByEmail(v)
    \/ \E v \in Verifiers : verifyOtpCreate(v)
    \/ \E v \in Verifiers : verifyOtpDeleteOne(v)
    \/ resendOtp
    \/ resendOtpSave
    \/ minutesPass

SpecAuth == Init /\ [][NextAuth]_vars

\* ------------------------------------ ShopifyService.fetchOrders by page
\* orders a page of the orders query can carry
OrderSamples ==
    { <<>>,
      <<[amount |-> 40, lineItems |-> <<2>>]>>,
      <<[amount |-> 40, lineItems |-> <<2>>], [amount |-> 25, lineItems |-> <<1, 3>>]>> }
\* what the query can answer for one day: pages in cursor order, the last of
\* them without a next page
OrderPages ==
    UNION {{p \in [1..n -> [orders : OrderSamples, hasNextPage : BOOLEAN]] :
                ~p[n].hasNextPage} : n \in 1..MaxOrderPages}
\* instants a caller may pass: the start and the middle of a day
Instants == {newDate(d) + h * (DayMs \div 2) : d \in Dates, h \in {0, 1}}
OrdersApi(from, to) ==
    [ok : BOOLEAN, days : [toISODate(from)..toISODate(to) -> OrderPages]]

RECURSIVE sumSeq(_)
sumSeq(q) == IF q = <<>> THEN 0 ELSE Head(q) + sumSeq(Tail(q))

\* for (const order of orders) { soldOrders++; orderValue += amount;
\* for (const item of lineItems) soldItems += quantity }
RECURSIVE addOrders(_, _)
addOrders(acc, page) ==
    IF page = <<>> THEN acc
    ELSE addOrders([acc EXCEPT !.soldOrders = @ + 1,
                               !.orderValue = @ + Head(page).amount,
                               !.soldItems = @ + sumSeq(Head(page).lineItems)],
                   Tail(page))

\* while (hasNextPage) { data = await callShopify(cursor); ...;
\* hasNextPage = pageInfo.hasNextPage; cursor = hasNextPage ?
\* orders[orders.length - 1].cursor : null }: the cursor of the last order
\* of a page without orders is a TypeError
RECURSIVE pageLoop(_, _, _)
pageLoop(pages, i, acc) ==
    LET sums == addOrders(acc, pages[i].orders)
    IN IF pages[i].hasNextPage
       THEN IF pages[i].orders = <<>>
            THEN [threw |-> TRUE, sums |-> sums, requested |-> i]
            ELSE pageLoop(pages, i + 1, sums)
       ELSE [threw |-> FALSE, sums |-> sums, requested |-> i]

\* while (currentDate <= to) { ...; results.push({date:
\* currentDate.toISOString().slice(0, 10), ...});
\* currentDate.setDate(currentDate.getDate() + 1) }
RECURSIVE dayLoop(_, _, _, _, _)
dayLoop(currentDate, to, api, results, requested) ==
    IF currentDate <= to
    THEN LET day == pageLoop(api.days[toISODate(currentDate)], 1,
                             [soldOrders |-> 0, orderValue |-> 0, soldItems |-> 0])
         IN IF ~api.ok \/ day.threw
            THEN [threw |-> TRUE, results |-> <<>>, requested |-> requested]
            ELSE dayLoop(currentDate + DayMs, to, api,
                         Append(results, [date |-> toISODate(currentDate),
                                          soldOrders |-> day.sums.soldOrders,
                                          orderValue |-> day.sums.orderValue,
                                          soldItems |-> day.sums.soldItems]),
                         Append(requested, day.requested))
    ELSE [threw |-> FALSE, results |-> results, requested |-> requested]

fetchOrdersByPage ==
    /\ runs < MaxOrderCalls
    /\ \E storeId \in DOMAIN stores, from \in Instants, to \in Instants :
         \E api \in OrdersApi(from, to) :
            LET r == dayLoop(from, to, api, <<>>, <<>>)
            IN /\ orders' = [pc |-> "done", store |-> storeId, from |-> from, to |-> to,
                             api |-> api.days, threw |-> r.threw, results |-> r.results,
                             requested |-> r.requested]
               /\ auditLog' = log(auditLog,
                    <<auditEntry("SHOPIFY_SYNC_STARTED", "PENDING", storeId),
                      IF r.threw THEN auditEntry("SHOPIFY_SYNC_FAILED", "FAILURE", storeId)
                      ELSE auditEntry("SHOPIFY_ORDERS_FETCHED", "SUCCESS", storeId)>>)
    /\ runs' = runs + 1
    /\ UNCHANGED <<call, upserts, inflight, insight, google, agg, auditQuery, authVars,
                   insights, syncs, removeRace, access, pwd, products, traffic, fbCall, stores, metrics, op, iter>>

NextOrders == fetchOrdersByPage

SpecOrders == Init /\ [][NextOrders]_vars

\* ------------------------------------------ FacebookService.fetchInsights
\* values of the limit parameter
LimitInputs == 1..MaxLimit
\* what the insights edge can serve for a request with `limit`: pages in
\* cursor order, each with at most limit rows and with a next cursor or
\* without, or a body without data; the last page has no next cursor
InsightPages(limit) ==
    UNION {{p \in [1..n -> [count : 0..limit, hasData : BOOLEAN, next : BOOLEAN]] :
                ~p[n].next /\ \A i \in 1..n : ~p[i].hasData => (p[i].count = 0 /\ ~p[i].next)}
           : n \in 1..MaxInsightPages}
\* the rows of page i: their page and their position in it
rowsOfPage(pages, i) == [j \in 1..pages[i].count |-> [page |-> i, row |-> j]]

\* while (nextPage && allData.length < limit) { nextData = await
\* axios.get(nextPage); if (nextData.data?.data) { allData = [...allData,
\* ...nextData.data.data]; nextPage = nextData.data.paging?.next } else break }
RECURSIVE followNext(_, _, _, _)
followNext(pages, i, allData, limit) ==
    IF pages[i].next /\ Len(allData) < limit /\ i < Len(pages)
    THEN IF pages[i + 1].hasData
         THEN followNext(pages, i + 1, allData \o rowsOfPage(pages, i + 1), limit)
         ELSE [allData |-> allData, followed |-> i]
    ELSE [allData |-> allData, followed |-> i - 1]

\* processRegularInsights: data.map(insight => ({id, name, ...metrics}))
processRegularInsights(data) == [k \in 1..Len(data) |-> [id |-> data[k]]]

fetchInsights(storeId, limit, pages, ok) ==
    LET pending == auditEntry("FACEBOOK_SYNC_STARTED", "PENDING", storeId)
        all == followNext(pages, 1, rowsOfPage(pages, 1), limit)
    IN IF ~ok
       THEN [threw |-> TRUE, rows |-> <<>>, followed |-> 0,
             audit |-> <<pending, auditEntry("FACEBOOK_SYNC_FAILED", "FAILURE", storeId)>>]
       ELSE IF ~pages[1].hasData \/ pages[1].count = 0
       THEN [threw |-> FALSE, rows |-> <<>>, followed |-> 0, audit |-> <<pending>>]
       ELSE [threw |-> FALSE, rows |-> processRegularInsights(all.allData),
             followed |-> all.followed,
             audit |-> <<pending, auditEntry("FACEBOOK_INSIGHTS_FETCHED", "SUCCESS", storeId)>>]

fetchInsightsCall ==
    /\ runs < MaxInsightCalls
    /\ \E storeId \in DOMAIN stores, limit \in LimitInputs, ok \in BOOLEAN :
         \E pages \in InsightPages(limit) :
            LET r == fetchInsights(storeId, limit, pages, ok)
            IN /\ insights' = [pc |-> "done", store |-> storeId, limit |-> limit,
                               pages |-> pages, threw |-> r.threw, rows |-> r.rows,
                               followed |-> r.followed]
               /\ auditLog' = log(auditLog, r.audit)
    /\ runs' = runs + 1
    /\ UNCHANGED <<call, upserts, inflight, insight, google, agg, auditQuery, authVars, orders,
                   syncs, removeRace, access, pwd, products, traffic, fbCall, stores, metrics, op, iter>>

NextInsights == fetchInsightsCall

SpecInsights == Init /\ [][NextInsights]_vars

\* ------------------------------------------------------------ properties
fieldsOf(r) ==
    <<r.facebookMetaSpend, r.googleAdSpend, r.shopifySoldOrders,
      r.shopifyOrderValue, r.shopifySoldItems>>
rowsAt(coll, storeId, date) == {r \in coll : r.storeId = storeId /\ r.date = date}
rowsOfStore(coll, storeId) == {r \in coll : r.storeId = storeId}
datesOf(rows) == {rows[i].date : i \in 1..Len(rows)}
merging == iter.status \in {"upserting", "done"}

\* C1: the Daily Store Metric collection never holds two rows of one
\* (storeId, date), and every createOrUpdate a sync has issued left the single
\* row of its key with exactly the five values it was given, whatever the row
\* held before.
C1_OneRowPerStoreDate ==
    /\ \A r1 \in metrics, r2 \in metrics :
          (r1.storeId = r2.storeId /\ r1.date = r2.date) => r1 = r2
    /\ \A i \in 1..Len(iter.issued) :
          LET input == iter.issued[i]
          IN \E r \in metrics :
               /\ rowsAt(metrics, input.storeId, input.date) = {r}
               /\ fieldsOf(r) = fieldsOf(input)

\* a sync has rewritten a row that an earlier sync left with other values in
\* all five fields
C1_Witness ==
    \E i \in 1..Len(iter.issued), b \in iter.before :
        /\ b.storeId = iter.issued[i].storeId
        /\ b.date = iter.issued[i].date
        /\ b.facebookMetaSpend # iter.issued[i].facebookMetaSpend
        /\ b.googleAdSpend # iter.issued[i].googleAdSpend
        /\ b.shopifySoldOrders # iter.issued[i].shopifySoldOrders
        /\ b.shopifyOrderValue # iter.issued[i].shopifyOrderValue
        /\ b.shopifySoldItems # iter.issued[i].shopifySoldItems

\* the row of a vendor's result for a date, as the set of rows with that date
vendorRows(rows, dateStr) == {rows[i] : i \in {j \in 1..Len(rows) : rows[j].date = dateStr}}

\* C4: the merge yields exactly one record per date of the union of the
\* three vendors' dates; each record takes its Shopify fields from Shopify's
\* row of that date, facebookMetaSpend from Facebook's and googleAdSpend from
\* Google's, and 0 where the vendor has no row; the upserts issued are these
\* records, one each, and the count reported is their number.
C4_MergeByDate ==
    merging =>
      LET union == datesOf(iter.shopifyData) \cup datesOf(iter.fbData) \cup datesOf(iter.googleSpend)
      IN /\ {iter.merged[i].key : i \in 1..Len(iter.merged)} = union
         /\ Len(iter.merged) = Cardinality(union)
         /\ \A i \in 1..Len(iter.merged) :
              LET m == iter.merged[i]
                  sh == vendorRows(iter.shopifyData, m.key)
                  fb == vendorRows(iter.fbData, m.key)
                  go == vendorRows(iter.googleSpend, m.key)
              IN /\ m.storeId = iter.store
                 /\ m.date = m.key * DayMs
                 /\ IF sh = {}
                    THEN m.shopifySoldOrders = 0 /\ m.shopifyOrderValue = 0 /\ m.shopifySoldItems = 0
                    ELSE sh = {[date |-> m.key, soldOrders |-> m.shopifySoldOrders,
                                orderValue |-> m.shopifyOrderValue, soldItems |-> m.shopifySoldItems]}
                 /\ IF fb = {} THEN m.facebookMetaSpend = 0
                    ELSE fb = {[date |-> m.key, spend |-> m.facebookMetaSpend]}
                 /\ IF go = {} THEN m.googleAdSpend = 0
                    ELSE go = {[date |-> m.key, spend |-> m.googleAdSpend]}
         /\ iter.status = "upserting" => iter.issued \o op.queue = iter.merged
         /\ iter.status = "done" =>
              /\ iter.issued = iter.merged
              /\ iter.reported = Len(iter.merged)
              /\ op.kind \in {"dailySync", "rangeSync"} => op.response.daysProcessed = Len(iter.merged)

\* a finished sync whose three vendors returned different sets of dates, one
\* of them a date Shopify has no row for
C4_Witness ==
    /\ iter.status = "done"
    /\ Len(iter.merged) >= 2
    /\ datesOf(iter.fbData) # datesOf(iter.googleSpend)
    /\ datesOf(iter.fbData) # {}
    /\ datesOf(iter.googleSpend) # {}
    /\ datesOf(iter.fbData) \ datesOf(iter.shopifyData) # {}

\* C6: in the scheduled daily sync, when one of a store's three vendor
\* calls has failed, the Daily Store Metric rows of that store are as they
\* were when the store's iteration began.
C6_FailedVendorSkipsStore ==
    (op.kind = "handleDailySync" /\ iter.failed # {}) =>
        rowsOfStore(metrics, iter.store) = rowsOfStore(iter.before, iter.store)

\* C7: for a store without a Google customer id the Google client returns
\* no rows, raises nothing, writes nothing and never reaches the Google API;
\* the sync fails only when Shopify or Facebook failed, and when it has
\* finished every merged date has its row with the Shopify and Facebook
\* values fetched and googleAdSpend 0.
C7_NoGoogleCustomerId ==
    (iter.status \in {"upserting", "done", "failed"} /\ ~stores[iter.store].googleCustomerId) =>
        /\ iter.googleSpend = <<>>
        /\ "google" \notin iter.called
        /\ "google" \notin iter.failed
        /\ \A i \in 1..Len(iter.audit) : iter.audit[i].action \in
               {"SHOPIFY_SYNC_STARTED", "SHOPIFY_SYNC_FAILED", "SHOPIFY_ORDERS_FETCHED"}
               \/ iter.audit[i] \in {auditEntry("FACEBOOK_SYNC_STARTED", "PENDING", iter.store),
                                      auditEntry("FACEBOOK_SYNC_FAILED", "FAILURE", iter.store),
                                      auditEntry("FACEBOOK_AD_SPEND_FETCHED", "SUCCESS", iter.store)}
        /\ Len(iter.audit) <= 4
        /\ iter.status = "failed" => iter.failed \cap {"shopify", "facebook"} # {}
        /\ iter.status = "done" =>
              \A d \in datesOf(iter.shopifyData) \cup datesOf(iter.fbData) :
                    \E r \in metrics :
                      /\ rowsAt(metrics, iter.store, d * DayMs) = {r}
                      /\ r.googleAdSpend = 0
                      /\ \A x \in vendorRows(iter.shopifyData, d) :
                            /\ r.shopifySoldOrders = x.soldOrders
                            /\ r.shopifyOrderValue = x.orderValue
                            /\ r.shopifySoldItems = x.soldItems
                      /\ \A x \in vendorRows(iter.fbData, d) : r.facebookMetaSpend = x.spend

\* a finished sync of a store without a Google customer id that stored
\* Shopify orders and Facebook spend
C7_Witness ==
    /\ iter.status = "done"
    /\ ~stores[iter.store].googleCustomerId
    /\ \E r \in rowsOfStore(metrics, iter.store) :
          r.facebookMetaSpend > 0 /\ r.shopifySoldOrders > 0 /\ r.googleAdSpend = 0

\* C8: for a store without a Facebook access token or ad-account id the
\* Facebook client returns no rows and does not fail.
C8_NoFacebookCredential ==
    (iter.status \in {"upserting", "done", "failed"}
       /\ (~stores[iter.store].fbAdSpendToken \/ ~stores[iter.store].fbAccountId)) =>
        /\ "facebook" \notin iter.failed
        /\ iter.fbData = <<>>
        /\ iter.status # "failed" \/ "shopify" \in iter.failed

\* the dates a rangeSync request carries fail the handler's validation
rejectedRange ==
    \/ op.startDate = 0
    \/ op.endDate = 0
    \/ op.startDate > op.endDate

\* the request in progress has reached no vendor, written no metric row and
\* no audit entry
noEffect ==
    /\ iter.called = {}
    /\ iter.issued = <<>>
    /\ metrics = iter.before
    /\ auditLog = iter.auditBefore

\* C9 as stated: whenever rangeSync is called with an unparseable date or
\* with startDate later than endDate it returns an object with status 400
\* rather than throwing, and has no effect.
C9_RejectsWith400 ==
    (op.kind = "rangeSync" /\ rejectedRange) =>
        /\ op.pc = "done"
        /\ op.response.status = 400
        /\ ~op.response.thrown
        /\ noEffect

\* C9, for the store looked up first: rangeSync of an existing store with an
\* unparseable date or with startDate later than endDate returns an object
\* with status 400 without throwing; with an unknown store id the lookup
\* raises NotFound before the dates are examined; in both cases no vendor is
\* called, no metric row written and no audit entry added; and a range of an
\* existing store with parseable dates, startDate equal to endDate included,
\* is not rejected.
C9_RejectsExistingStoreWith400 ==
    op.kind = "rangeSync" =>
        /\ (rejectedRange /\ op.store \in DOMAIN stores) =>
              /\ op.pc = "done"
              /\ op.response = [NoResponse EXCEPT !.status = 400]
              /\ noEffect
        /\ op.store \notin DOMAIN stores =>
              /\ op.pc = "done"
              /\ op.response = [NoResponse EXCEPT !.status = 404, !.thrown = TRUE]
              /\ noEffect
        /\ (~rejectedRange /\ op.store \in DOMAIN stores) =>
              /\ op.response.status # 400
              /\ op.pc = "done" /\ ~op.response.thrown => op.response.status = 200

\* a range with startDate later than endDate, both parseable, was rejected
\* for a store that has metric rows
C9_Witness ==
    /\ op.kind = "rangeSync"
    /\ op.response.status = 400
    /\ op.endDate # 0
    /\ op.startDate > op.endDate
    /\ rowsOfStore(metrics, op.store) # {}

\* the rows of a collection with a store's id and a product id
productRows(coll, storeId, productId) ==
    {r \in coll : r.storeId = storeId /\ r.productId = productId}
batchIds == {iter.batch[i].productId : i \in 1..Len(iter.batch)}

\* C2: when a product sync of a store has completed, every product of the
\* fetched batch has one row whose totalQuantitySold and totalRevenue are the
\* batch's quantitySold and revenue, whatever the row held before; every row
\* the store had for a product outside the batch is still there with both
\* totals 0; and the rows of other stores are as they were.
C2_TotalsEqualBatch ==
    (op.kind \in ProductKinds /\ iter.status = "done") =>
        /\ \A i \in 1..Len(iter.batch) :
              LET b == iter.batch[i]
              IN \E r \in products :
                   /\ productRows(products, iter.store, b.productId) = {r}
                   /\ r.totalQuantitySold = b.quantitySold
                   /\ r.totalRevenue = b.revenue
        /\ \A b \in iter.before :
              (b.storeId = iter.store /\ b.productId \notin batchIds) =>
                  productRows(products, iter.store, b.productId) =
                      {[b EXCEPT !.totalQuantitySold = 0, !.totalRevenue = 0]}
        /\ \A r \in products :
              r.storeId = iter.store =>
                  r.productId \in batchIds \cup {b.productId : b \in rowsOfStore(iter.before, iter.store)}
        /\ {r \in products : r.storeId # iter.store} = {r \in iter.before : r.storeId # iter.store}

\* a completed sync of a store that had nonzero totals for a product of the
\* batch, other than the batch's, and nonzero totals for a product outside it
C2_Witness ==
    /\ op.kind \in ProductKinds
    /\ iter.status = "done"
    /\ \E i \in 1..Len(iter.batch), b \in iter.before :
          /\ b.storeId = iter.store
          /\ b.productId = iter.batch[i].productId
          /\ b.totalQuantitySold > 0
          /\ b.totalQuantitySold # iter.batch[i].quantitySold
          /\ b.totalRevenue # iter.batch[i].revenue
    /\ \E b \in iter.before :
          /\ b.storeId = iter.store
          /\ b.productId \notin batchIds
          /\ b.totalRevenue > 0

\* the upsert a traffic sync issued last for a landing page path
lastIssued(path) ==
    LET hits == {i \in 1..Len(iter.issued) : iter.issued[i].landingPagePath = path}
    IN iter.issued[CHOOSE i \in hits : \A j \in hits : j <= i]
issuedPaths == {iter.issued[i].landingPagePath : i \in 1..Len(iter.issued)}
untouchedBy(r) == r.storeId # iter.store \/ r.startDate < op.from

\* C3: from its reset on, a traffic sync of store S with window start W
\* leaves every row of S that starts before W and every row of another
\* store as it was; no row of S starts after W; the rows of S that start at W
\* are the ones this sync has written, one per landing page path, each
\* holding in every field the values of the fetched row last written for
\* its path; and when the sync has completed every fetched path has its row.
C3_WindowReplaced ==
    (op.kind \in TrafficKinds /\ iter.status \in {"upserting", "done", "failed"}) =>
        /\ {r \in traffic : untouchedBy(r)} = {r \in iter.before : untouchedBy(r)}
        /\ \A r \in traffic : r.storeId = iter.store => r.startDate <= op.from
        /\ \A r \in traffic :
              (r.storeId = iter.store /\ r.startDate = op.from) =>
                  /\ r.landingPagePath \in issuedPaths
                  /\ r = lastIssued(r.landingPagePath)
        /\ \A path \in issuedPaths :
              \E r \in traffic :
                 {x \in traffic : /\ x.storeId = iter.store
                                  /\ x.startDate = op.from
                                  /\ x.landingPagePath = path} = {r}
        /\ iter.status = "done" =>
              /\ Len(iter.issued) = Len(iter.batch)
              /\ \A i \in 1..Len(iter.batch) :
                    /\ iter.issued[i].landingPagePath = iter.batch[i].landingPagePath
                    /\ iter.issued[i].landingPageType = iter.batch[i].landingPageType
                    /\ iter.issued[i].sessions = iter.batch[i].sessions
                    /\ iter.issued[i].onlineStoreVisitors = iter.batch[i].onlineStoreVisitors
                    /\ iter.issued[i].sessionsWithCartAdditions = iter.batch[i].sessionsWithCartAdditions
                    /\ iter.issued[i].sessionsThatReachedCheckout = iter.batch[i].sessionsThatReachedCheckout
                    /\ iter.issued[i].startDate = op.from
                    /\ iter.issued[i].endDate = op.to

\* a completed sync of a store that had, at the same window start, a row
\* with other values for a fetched path and a row for a path not fetched,
\* while another store has rows
C3_Witness ==
    /\ op.kind \in TrafficKinds
    /\ iter.status = "done"
    /\ \E b \in iter.before, r \in traffic :
          /\ b.storeId = iter.store /\ r.storeId = iter.store
          /\ b.startDate = op.from /\ r.startDate = op.from
          /\ b.landingPagePath = r.landingPagePath
          /\ b.landingPageType # r.landingPageType
          /\ b.sessions # r.sessions
    /\ \E b \in iter.before :
          /\ b.storeId = iter.store
          /\ b.startDate = op.from
          /\ b.landingPagePath \notin issuedPaths
    /\ \E r \in traffic : r.storeId # iter.store

\* the stores a job has finished with are the first idx - 1 of its list
visitedInOrder == op.visited = SubSeq(op.list, 1, op.idx - 1)
jobRunning == op.kind \in Jobs /\ op.pc # "done"
jobDone == op.kind \in Jobs /\ op.pc = "done"

\* C5: in every run of a scheduled job the stores visited so far are the
\* stores before the current one in the list findAll returned, each once and
\* in order, stores whose iteration failed included; a run that has ended has
\* visited the whole list; and every run ends.
C5_FailureDoesNotStopLoop ==
    /\ [](op.kind \in Jobs =>
            /\ visitedInOrder
            /\ op.list = findAll
            /\ op.caught \subseteq {op.visited[i] : i \in 1..Len(op.visited)}
            /\ jobDone => op.visited = op.list)
    /\ (jobRunning ~> jobDone)

\* a run has ended in which the first store failed and the store after it
\* was synced
C5_Witness ==
    /\ jobDone
    /\ op.caught = {1}
    /\ Len(op.visited) >= 2
    /\ iter.store = op.visited[Len(op.visited)]
    /\ iter.status = "done"
    /\ iter.issued # <<>>

fbActive == fbCall.pc # "idle"
fbSettled == fbCall.pc \in {"returned", "raised"}

\* C10: a call of callFacebook sends at most 4 requests and retries at most
\* 3 times; every retry follows an answer with error code 17 and a wait of
\* 2 seconds; an error with another code, or a fourth rate-limit error, is
\* raised at once; and every call ends by returning or raising.
C10_BoundedRetry ==
    /\ [](fbActive =>
            /\ fbCall.retry <= MaxRetries
            /\ fbCall.requests <= MaxRetries + 1
            /\ fbCall.waitedMs = RetryDelayMs * fbCall.retry
            /\ fbCall.requests = fbCall.retry + (IF fbCall.pc = "request" THEN 0 ELSE 1)
            /\ \A i \in 1..fbCall.retry : fbCall.codes[i] = RateLimitCode
            /\ Len(fbCall.codes) \in {fbCall.retry, fbCall.retry + 1}
            /\ fbCall.pc = "sleep" =>
                  /\ Len(fbCall.codes) = fbCall.retry + 1
                  /\ fbCall.codes[Len(fbCall.codes)] = RateLimitCode
                  /\ fbCall.retry < MaxRetries
            /\ fbCall.pc = "raised" =>
                  /\ Len(fbCall.codes) = fbCall.retry + 1
                  /\ \/ fbCall.codes[Len(fbCall.codes)] # RateLimitCode
                     \/ fbCall.retry = MaxRetries
            /\ fbCall.pc = "returned" => Len(fbCall.codes) = fbCall.retry
            /\ (Len(fbCall.codes) = fbCall.retry + 1
                  /\ fbCall.codes[Len(fbCall.codes)] # RateLimitCode) => fbCall.pc = "raised")
    /\ (fbActive ~> fbSettled)

\* a call raised after four rate-limit answers and three waits
C10_Witness ==
    /\ fbCall.pc = "raised"
    /\ fbCall.requests = 4
    /\ fbCall.waitedMs = 6000
    /\ fbCall.codes = <<RateLimitCode, RateLimitCode, RateLimitCode, RateLimitCode>>

\* C11: a vendor call whose audit entries could not all be saved ends as
\* the same call does when they are saved: it raises exactly when the vendor
\* call raised and returns the same rows; the log calls themselves raise
\* nothing, and the audit store holds what it held plus the entries whose
\* save succeeded.
C11_LogNeverThrows ==
    call.client # "none" =>
        /\ call.threw = call.expected.threw
        /\ call.data = call.expected.data
        /\ auditLog = call.logBefore \cup
              {call.attempted[i] : i \in {j \in 1..Len(call.attempted) : call.saved[j]}}

\* a vendor call returned rows although neither of its two audit entries
\* could be saved
C11_Witness ==
    /\ call.client # "none"
    /\ Len(call.attempted) = 2
    /\ call.saved = <<FALSE, FALSE>>
    /\ call.data # <<>>
    /\ ~call.threw
    /\ auditLog = call.logBefore

\* the values a caller's createOrUpdate has written or is about to write
calledWith(c) == upserts[c].input

\* C12: however the createOrUpdate calls of the scheduled and the manual
\* daily sync interleave, the collection holds at most one row per
\* (storeId, date); and when the two calls made so far were for one key and
\* both have ended, the single row of the key holds in all five fields the
\* values of one of the two calls.
C12_InterleavedUpserts ==
    /\ \A r1 \in metrics, r2 \in metrics :
          (r1.storeId = r2.storeId /\ r1.date = r2.date) => r1 = r2
    /\ \A c1 \in Callers, c2 \in Callers :
          (/\ c1 # c2
           /\ upserts[c1].pc \in {"done", "error"}
           /\ upserts[c2].pc \in {"done", "error"}
           /\ runs = 2
           /\ calledWith(c1).storeId = calledWith(c2).storeId
           /\ calledWith(c1).date = calledWith(c2).date) =>
              \E r \in metrics :
                 /\ keyMatches(metrics, calledWith(c1)) = {r}
                 /\ fieldsOf(r) \in {fieldsOf(calledWith(c1)), fieldsOf(calledWith(c2))}

\* two calls for one key with different values both found no row and went
\* on to insert; the index refused the second insert, which ran again as an
\* update, and both calls have ended
C12_Witness ==
    /\ runs = 2
    /\ upserts["dailySync"].refused
    /\ \A c \in Callers : upserts[c].pc = "done"
    /\ calledWith("handleDailySync").storeId = calledWith("dailySync").storeId
    /\ calledWith("handleDailySync").date = calledWith("dailySync").date
    /\ fieldsOf(calledWith("handleDailySync")) # fieldsOf(calledWith("dailySync"))
    /\ \E r \in metrics : fieldsOf(r) = fieldsOf(calledWith("dailySync"))

\* the stores of the current run whose iteration has begun
begunStores ==
    {op.visited[i] : i \in 1..Len(op.visited)} \cup
    (IF op.pc \in {"await", "upsert"} THEN {op.store} ELSE {})

\* C13: in a run of the daily metrics job the vendor calls of a store exist
\* all three or not at all; a metric row of a store is upserted only after
\* all three of its calls have been fulfilled; and calls exist only for the
\* stores already visited and the current one, so none of a later store
\* starts before the current iteration has ended in its last upsert or in
\* its catch block.
C13_OneStoreAtATime ==
    op.kind = "handleDailySync" =>
        /\ \A s \in Stores :
              {c.vendor : c \in callsOf(runs, s)} \in {{}, Vendors}
        /\ (op.pc = "upsert" \/ iter.issued # <<>>) =>
              \A c \in callsOf(runs, iter.store) : c.status = "resolved"
        /\ \A r \in metrics : \E run \in 1..runs :
              /\ callsOf(run, r.storeId) # {}
              /\ \A c \in callsOf(run, r.storeId) : c.status = "resolved"
        /\ \A c \in inflight : c.run = runs => c.store \in begunStores
        /\ op.pc = "await" => callsOf(runs, op.store) # {}
        /\ visitedInOrder

\* the first store's iteration ended in the catch block with one of its
\* calls still pending, and the second store's calls were all fulfilled and
\* its row upserted
C13_Witness ==
    /\ op.kind = "handleDailySync"
    /\ op.caught = {1}
    /\ \E c \in callsOf(runs, 1) : c.status = "pending"
    /\ iter.store = 2
    /\ iter.issued # <<>>
    /\ rowsOfStore(metrics, 2) # {}
    /\ rowsOfStore(metrics, 1) = {}

ratiosOf(m) == {m.costPerResult, m.cpm, m.cpc, m.ctr, m.linkCtr, m.resultRoas}
isZero(x) == x.kind = "num" /\ x.v = 0
finiteField(f) == f.text \in {"absent", "numeric"}

\* the ratios whose denominator is 0 are 0
zeroGuards(m) ==
    /\ isZero(m.impressions) => (m.cpm = Num(0) /\ m.ctr = Num(0) /\ m.linkCtr = Num(0))
    /\ isZero(m.clicks) => m.cpc = Num(0)
    /\ isZero(m.results) => m.costPerResult = Num(0)
    /\ isZero(m.spend) => m.resultRoas = Num(0)

\* C14 as stated: every ratio with denominator 0 is 0, and no insight row
\* yields NaN or Infinity for a ratio.
C14_NeverNaN ==
    insight.given =>
        /\ zeroGuards(insight.metrics)
        /\ \A x \in ratiosOf(insight.metrics) : x.kind = "num"

\* C14, for rows of numbers: every ratio whose denominator is 0, or is not a
\* number, is 0; and when spend, clicks, inline_link_clicks and the purchase
\* value are absent or numeric strings, no ratio is NaN or Infinity.
C14_ZeroGuards ==
    insight.given =>
        LET m == insight.metrics
        IN /\ zeroGuards(m)
           /\ ~gt0(m.impressions) => (m.cpm = Num(0) /\ m.ctr = Num(0) /\ m.linkCtr = Num(0))
           /\ ~gt0(m.clicks) => m.cpc = Num(0)
           /\ ~gt0(m.results) => m.costPerResult = Num(0)
           /\ (~gt0(m.spend) \/ ~gt0(m.resultsValue)) => m.resultRoas = Num(0)
           /\ (/\ finiteField(insight.row.spend)
               /\ finiteField(insight.row.clicks)
               /\ finiteField(insight.row.inline_link_clicks)
               /\ finiteField(insight.row.purchaseValue)) =>
                  \A x \in ratiosOf(m) : x.kind = "num"

\* spend 100 with no impressions, no clicks and no results
C14_Witness ==
    /\ insight.given
    /\ insight.metrics.spend = Num(100 * Hundredths)
    /\ isZero(insight.metrics.impressions)
    /\ isZero(insight.metrics.clicks)
    /\ isZero(insight.metrics.results)
    /\ insight.row.impressions.text = "numeric"
    /\ insight.metrics.cpm = Num(0)

tokenCallEnded == google.pc = "done" /\ google.outcome # "none"

C16_RemoveCascades ==
    (op.kind = "remove" /\ op.pc = "done") =>
        IF op.response.thrown
        THEN /\ op.response.status = 404
             /\ metrics = iter.before
             /\ auditLog = iter.auditBefore
             /\ op.store \notin DOMAIN stores
        ELSE /\ op.store \notin DOMAIN stores
             /\ rowsOfStore(metrics, op.store) = {}
             /\ metrics = {r \in iter.before : r.storeId # op.store}

\* a store with metric rows was removed while another store had rows
C16_Witness ==
    /\ op.kind = "remove"
    /\ op.pc = "done"
    /\ ~op.response.thrown
    /\ rowsOfStore(iter.before, op.store) # {}
    /\ metrics # {}

\* the rows a query on `today` for `range` has in its date window: those
\* dated on or after the start of the day daysMap[range] days before, every
\* row when the range names no window
inWindow(coll, range, today) ==
    {r \in coll : daysMap(range) # 0 => today - toISODate(r.date) <= daysMap(range)}
totalsOver(rows, response) ==
    /\ response.totalAdSpend = reduceSum(rows, "facebookMetaSpend") + reduceSum(rows, "googleAdSpend")
    /\ response.totalOrders = reduceSum(rows, "shopifySoldOrders")
    /\ response.totalRevenue = reduceSum(rows, "shopifyOrderValue")
    /\ response.totalStores = Cardinality({r.storeId : r \in rows})
serviceAnswered == agg.pc = "done" /\ agg.via = "service"
controllerAnswered == agg.pc = "done" /\ agg.via = "controller"

assignedRows(coll, assignedStores) == {r \in coll : r.storeId \in assignedStores}

\* C18: the aggregate endpoint answers a user who is not an administrator
\* from the rows of the assigned stores alone: every database with the same
\* rows of those stores gets the same response, and a user with no assigned
\* store gets all-zero totals.
C18_OnlyAssignedStores ==
    (controllerAnswered /\ agg.role # "ADMIN") =>
        /\ \A D \in MetricDbs :
             assignedRows(D, agg.assignedStores) = assignedRows(metrics, agg.assignedStores)
                => getAggregate(D, agg.role, agg.assignedStores, agg.range, agg.today)
                     = agg.response
        /\ agg.assignedStores = {} =>
             /\ agg.response.totalStores = 0
             /\ agg.response.totalAdSpend = 0
             /\ agg.response.totalOrders = 0
             /\ agg.response.totalRevenue = 0

\* a viewer assigned one store was answered with that store's totals while
\* the database held rows of another store
C18_Witness ==
    /\ controllerAnswered
    /\ agg.role = "VIEWER"
    /\ Cardinality(agg.assignedStores) = 1
    /\ assignedRows(metrics, agg.assignedStores) # {}
    /\ metrics \ assignedRows(metrics, agg.assignedStores) # {}
    /\ agg.response.totalStores = 1
    /\ agg.response.totalAdSpend > 0

\* C19: the audit log is append-only: every step keeps every stored entry
\* as it is (an entry modified or deleted would no longer be in the set).
C19_AppendOnly == [][auditLog \subseteq auditLog']_vars

\* the log holds entries of a sync and of a store removal that followed it,
\* and has been read
C19_Witness ==
    /\ \E e \in auditLog : e.action = "STORE_CREATED"
    /\ \E e \in auditLog : e.action # "STORE_CREATED" /\ e.storeId \in Stores \ DOMAIN stores
    /\ auditQuery.pc = "done"
    /\ auditQuery.logs # {}

\* verifier v creates the user account in this step
createsUser(v) == authCalls[v].pc = "create" /\ authCalls'[v].pc = "deleteOne"
\* verifier v returns its success response in this step
verifySucceeds(v) == authCalls[v].pc = "deleteOne" /\ authCalls'[v].pc = "done"

\* C20: a step adds a user only as the create of a verifyOtp call, for the
\* address of that call, the call having found a pending registration for
\* the address whose OTP is the submitted one and whose expiry had not
\* passed when it was checked; when a verifyOtp call succeeds no pending
\* registration for its address is left; and no two users ever share an
\* e-mail address.
C20_AccountOnlyByVerifiedOtp ==
    [][ /\ \A u \in users' \ users :
             \E v \in Verifiers :
                 /\ createsUser(v)
                 /\ users' = users \cup {u}
                 /\ u.email = authCalls[v].email
                 /\ authCalls[v].found.email = authCalls[v].email
                 /\ authCalls[v].found.otp = authCalls[v].otp
                 /\ authCalls[v].checkedAt <= authCalls[v].found.otpExpiresAt
        /\ \A v \in Verifiers :
             verifySucceeds(v) => findByEmail(pendingUsers', authCalls[v].email) = {}
        /\ \A u1 \in users', u2 \in users' : u1.email = u2.email => u1 = u2
      ]_vars

\* two verifyOtp calls submitted the same OTP for one address together: one
\* created the account and succeeded, the other was refused at its create
C20_Witness ==
    /\ authCalls["verifyOtp1"].pc = "done"
    /\ authCalls["verifyOtp2"].pc = "error"
    /\ authCalls["verifyOtp2"].status = 500
    /\ authCalls["verifyOtp2"].email = authCalls["verifyOtp1"].email
    /\ authCalls["verifyOtp2"].otp = authCalls["verifyOtp1"].otp
    /\ Cardinality(findByEmail(users, authCalls["verifyOtp1"].email)) = 1
    /\ findByEmail(pendingUsers, authCalls["verifyOtp1"].email) = {}

\* the pages of a day up to and with the first that reports no next page
RECURSIVE firstLast(_, _)
firstLast(pages, i) == IF pages[i].hasNextPage THEN firstLast(pages, i + 1) ELSE i
pagesRead(pages) == SubSeq(pages, 1, firstLast(pages, 1))
ordersOf(pages) ==
    {<<i, j>> \in (1..Len(pages)) \X (1..2) : j <= Len(pages[i].orders)}
RECURSIVE sumOver(_, _, _)
sumOver(pages, idx, field) ==
    IF idx = {} THEN 0
    ELSE LET x == CHOOSE y \in idx : TRUE
             o == pages[x[1]].orders[x[2]]
         IN (IF field = "amount" THEN o.amount ELSE sumSeq(o.lineItems))
            + sumOver(pages, idx \ {x}, field)
ordersReturned == orders.pc = "done" /\ ~orders.threw /\ orders.from <= orders.to

\* what fetchOrders returns page by page: an entry for each day it visits,
\* in ascending order, each with the sums over the pages read of that day
entriesAreDaySums ==
    \A i \in 1..Len(orders.results) :
        LET e == orders.results[i]
            read == pagesRead(orders.api[e.date])
        IN /\ e.date = toISODate(orders.from) + i - 1
           /\ e.soldOrders = Cardinality(ordersOf(read))
           /\ e.orderValue = sumOver(read, ordersOf(read), "amount")
           /\ e.soldItems = sumOver(read, ordersOf(read), "quantity")
           /\ orders.requested[i] = Len(read)

\* C21: fetchOrders(store, from, to) with from <= to returns exactly one
\* entry per calendar day from the day of from to the day of to, in
\* ascending order, each with the sums over that day's pages up to the first
\* page that reports no next page, no page being asked for after it.
C21_OneEntryPerDay ==
    ordersReturned =>
        /\ Len(orders.results) = toISODate(orders.to) - toISODate(orders.from) + 1
        /\ entriesAreDaySums

\* the rows collected from the first page and the n pages after it
collectedAfter(n) ==
    LET counts == [i \in 1..(n + 1) |-> insights.pages[i].count]
    IN sumSeq(counts)

\* C22: fetchInsights follows a next cursor only while one exists and fewer
\* than limit rows have been collected, and it never returns more rows than
\* limit.
C22_NeverMoreThanLimit ==
    (insights.pc = "done" /\ ~insights.threw) =>
        /\ \A n \in 1..insights.followed :
             insights.pages[n].next /\ collectedAfter(n - 1) < insights.limit
        /\ Len(insights.rows) <= insights.limit

\* the entries a call wrote after its PENDING start entry
terminalEntries == SubSeq(call.attempted, 2, Len(call.attempted))

\* C23: a vendor call that wrote a PENDING start entry writes exactly one
\* terminal entry before it ends, SUCCESS when it returns a result and
\* FAILURE when it fails; a Shopify or Facebook call that fails raises.
C23_OneTerminalEntry ==
    (call.client # "none" /\ call.attempted # <<>>) =>
        /\ call.attempted[1].status = "PENDING"
        /\ Len(terminalEntries) = 1
        /\ terminalEntries[1].status = IF call.expected.failed THEN "FAILURE" ELSE "SUCCESS"
        /\ (call.expected.failed /\ call.client \in {"shopify", "facebook"})
              => call.expected.threw

\* the products whose upsert the sync has issued
appliedIds == {iter.issued[i].productId : i \in 1..Len(iter.issued)}
\* the batch as upsert inputs, in ascending order of product id
RECURSIVE batchAscending(_)
batchAscending(ids) ==
    IF ids = {} THEN <<>>
    ELSE LET m == CHOOSE x \in ids : \A y \in ids : x <= y
             b == iter.batch[CHOOSE i \in 1..Len(iter.batch) : iter.batch[i].productId = m]
         IN <<[storeId |-> iter.store, productId |-> b.productId,
               productName |-> b.productName, quantitySold |-> b.quantitySold,
               revenue |-> b.revenue]>> \o batchAscending(ids \ {m})
RECURSIVE applyUpserts(_, _)
applyUpserts(coll, inputs) ==
    IF inputs = <<>> THEN coll
    ELSE applyUpserts(upsertProductMetric(coll, Head(inputs)), Tail(inputs))

\* C24: between the reset of store S and the end of its sync, every product
\* of the batch whose upsert has been applied has its final totals (the
\* batch's), every row of a product not yet applied has totals 0, and once
\* the whole batch is applied the rows of S are those that applying the
\* batch in ascending order of product id gives, whatever order it came in.
C24_OrderIndependent ==
    (op.kind \in ProductKinds /\ iter.status \in {"upserting", "done"}) =>
        /\ \A i \in 1..Len(iter.batch) :
              LET b == iter.batch[i]
              IN IF b.productId \in appliedIds
                 THEN \E r \in products :
                        /\ productRows(products, iter.store, b.productId) = {r}
                        /\ r.totalQuantitySold = b.quantitySold
                        /\ r.totalRevenue = b.revenue
                 ELSE \A r \in productRows(products, iter.store, b.productId) :
                        r.totalQuantitySold = 0 /\ r.totalRevenue = 0
        /\ Len(iter.issued) = Len(iter.batch) =>
              products = applyUpserts(resetStoreProducts(iter.before, iter.store),
                                      batchAscending(batchIds))

\* half of a batch that came in descending order of product id is applied:
\* the product applied had other totals before the reset, the row of the
\* product still to come had nonzero totals
C24_Witness ==
    /\ op.kind \in ProductKinds
    /\ iter.status = "upserting"
    /\ Len(iter.batch) = 2
    /\ iter.batch[1].productId > iter.batch[2].productId
    /\ Len(iter.issued) = 1
    /\ \E b \in iter.before :
          /\ b.storeId = iter.store
          /\ b.productId = iter.batch[1].productId
          /\ b.totalQuantitySold > 0
          /\ b.totalQuantitySold # iter.batch[1].quantitySold
    /\ \E b \in iter.before :
          /\ b.storeId = iter.store
          /\ b.productId = iter.batch[2].productId
          /\ b.totalRevenue > 0

\* ------------------------------------------------ store access guard
besideAccess ==
    <<call, upserts, inflight, insight, google, agg, auditQuery, authVars, orders, insights,
      syncs, removeRace, pwd, products, traffic, fbCall, stores, metrics, op, iter>>

\* the user ids and store id lists an administrator can send
MemberInputs == 1..(NumMembers + 1)
StoreIdLists == SUBSET Stores \ {{}}

\* findByIdAndUpdate(id, {field: value}, {new: true}); if (!user) throw
\* NotFound; then one audit entry
updateMember(id, field, value, action) ==
    /\ runs < MaxAccessCalls
    /\ runs' = runs + 1
    /\ IF id \notin Members
       THEN UNCHANGED <<access, auditLog>>
       ELSE /\ access' = [access EXCEPT !.members[id][field] = value]
            /\ auditLog' = log(auditLog, <<auditEntry(action, "SUCCESS", 0)>>)
    /\ UNCHANGED besideAccess

\* the stores a user's record lists; none for an id with no record
assignedTo(userId) ==
    IF userId \in Members THEN access.members[userId].assignedStores ELSE {}

\* UsersService.updateRole
updateRole ==
    \E id \in MemberInputs, role \in UserRoles :
        updateMember(id, "role", role, "USER_ROLE_UPDATED")

\* UsersService.setActiveStatus
setActiveStatus ==
    \E id \in MemberInputs, isActive \in BOOLEAN :
        updateMember(id, "isActive", isActive,
                     IF isActive THEN "USER_ACTIVATED" ELSE "USER_DEACTIVATED")

\* UsersService.assignStores: $addToSet: {assignedStores: {$each: storeIds}}
assignStores ==
    \E userId \in MemberInputs, storeIds \in StoreIdLists :
        updateMember(userId, "assignedStores", assignedTo(userId) \cup storeIds,
                     "STORES_ASSIGNED")

\* UsersService.removeStores: $pull: {assignedStores: {$in: storeIds}}
removeStores ==
    \E userId \in MemberInputs, storeIds \in StoreIdLists :
        updateMember(userId, "assignedStores", assignedTo(userId) \ storeIds,
                     "STORES_REMOVED")

\* AuthService.login with the right password: an inactive user is refused,
\* else the token carries the role and stores of the record as it is now
login ==
    /\ runs < MaxAccessCalls
    /\ runs' = runs + 1
    /\ \E u \in Members :
         LET user == access.members[u]
         IN IF ~user.isActive
            THEN UNCHANGED <<access, auditLog>>
            ELSE /\ access' = [access EXCEPT !.tokens[u] =
                                  [sub |-> u, role |-> user.role,
                                   assignedStores |-> user.assignedStores]]
                 /\ auditLog' = log(auditLog, <<auditEntry("USER_LOGIN", "SUCCESS", 0)>>)
    /\ UNCHANGED besideAccess

\* a strategy that trusts the role and stores written into the token
validate_FromPayload(payload, coll) ==
    [threw |-> ~coll[payload.sub].isActive,
     user |-> [given |-> TRUE, userId |-> payload.sub, role |-> payload.role,
               assignedStores |-> payload.assignedStores]]

\* JwtStrategy.validate: the user of payload.sub is read again; an
\* inactive one is refused, else request.user is built from the record
validate(payload, coll) ==
    LET user == coll[payload.sub]
    IN [threw |-> ~user.isActive,
        user |-> [given |-> TRUE, userId |-> payload.sub, role |-> user.role,
                  assignedStores |-> user.assignedStores]]

\* StoresService.canAccessStore
canAccessStore(user, storeId) ==
    IF ~user.given THEN FALSE
    ELSE IF user.role = "ADMIN" THEN TRUE
    ELSE storeId \in user.assignedStores

\* StoreAccessGuard.canActivate; storeId 0 stands for a request that names
\* no store in its params, body or query
canActivate(user, storeId) ==
    IF user.given /\ user.role = "ADMIN" THEN TRUE
    ELSE IF storeId = 0 THEN FALSE
    ELSE canAccessStore(user, storeId)

\* a client sends the token it holds with a request for a store
requestArrives ==
    /\ access.request.pc = "idle"
    /\ \E u \in Members, storeId \in {0} \cup StoreIdInputs :
         /\ access.tokens[u] # NoToken
         /\ access' = [access EXCEPT !.request =
                          [NoRequest EXCEPT !.pc = "validate", !.token = access.tokens[u],
                                            !.store = storeId]]
    /\ UNCHANGED <<besideAccess, auditLog, runs>>

\* JwtAuthGuard: the strategy's validate fills request.user or answers 401
jwtAuthGuard ==
    /\ access.request.pc = "validate"
    /\ LET r == validate(access.request.token, access.members)
       IN access' = [access EXCEPT !.request =
                        IF r.threw THEN [access.request EXCEPT !.pc = "done", !.status = 401]
                        ELSE [access.request EXCEPT !.pc = "guard", !.user = r.user]]
    /\ UNCHANGED <<besideAccess, auditLog, runs>>

\* StoreAccessGuard: the request goes on to its handler or is answered 403
storeAccessGuard ==
    /\ access.request.pc = "guard"
    /\ LET request == access.request
       IN access' = [access EXCEPT !.request =
                        [request EXCEPT !.pc = "done",
                                        !.status = IF canActivate(request.user, request.store)
                                                   THEN 200 ELSE 403]]
    /\ UNCHANGED <<besideAccess, auditLog, runs>>

\* the request has been answered
requestEnds ==
    /\ access.request.pc = "done"
    /\ access' = [access EXCEPT !.request = NoRequest]
    /\ UNCHANGED <<besideAccess, auditLog, runs>>

NextAccess ==
    \/ updateRole
    \/ setActiveStatus
    \/ assignStores
    \/ removeStores
    \/ login
    \/ requestArrives
    \/ jwtAuthGuard
    \/ storeAccessGuard
    \/ requestEnds

SpecAccess == Init /\ [][NextAccess]_vars

\* ----------------------------------------- forgot and reset password
besidePwd ==
    <<call, upserts, inflight, insight, google, agg, auditQuery, authVars, orders, insights,
      syncs, removeRace, access, products, traffic, fbCall, stores, metrics, op, iter, runs,
      auditLog>>

\* the new passwords a request can carry
NewPasswords == {1, 2}
\* bcrypt.hash(dto.newPassword, 12)
bcryptHash(password) == [hashOf |-> password]

\* a call begins: it counts, and it overlaps when another is in progress
begun(c) ==
    [started |-> pwd.started + 1,
     overlapped |-> pwd.overlapped \/
                    \E d \in DOMAIN pwd.calls \ {c} : pwd.calls[d].pc \notin {"idle", "done"}]

\* AuthService.forgotPassword up to the first write: no account, 404; else
\* the OTP and its expiry are made
forgotPassword(c) ==
    /\ pwd.calls[c].pc = "idle"
    /\ pwd.started < MaxPwdCalls
    /\ \E email \in Emails, otp \in Otps :
         pwd' = [pwd EXCEPT
            !.started = begun(c).started,
            !.overlapped = begun(c).overlapped,
            !.calls[c] =
               IF email # AccountEmail
               THEN [NoPwdCall EXCEPT !.pc = "done", !.email = email, !.status = 404]
               ELSE [NoPwdCall EXCEPT !.pc = "deleteMany", !.email = email, !.otp = otp,
                                      !.otpExpiresAt = pwd.now + OtpMinutes]]
    /\ UNCHANGED besidePwd

\* await this.passwordResetModel.deleteMany({email, isUsed: false})
forgotDeleteMany(c) ==
    /\ pwd.calls[c].pc = "deleteMany"
    /\ pwd' = [pwd EXCEPT
          !.resets = {r \in pwd.resets : ~(r.email = pwd.calls[c].email /\ ~r.isUsed)},
          !.calls[c].pc = "create"]
    /\ UNCHANGED besidePwd

\* await this.passwordResetModel.create({email, otp, otpExpiresAt, isUsed: false})
forgotCreate(c) ==
    /\ pwd.calls[c].pc = "create"
    /\ pwd' = [pwd EXCEPT
          !.resets = @ \cup {[id |-> pwd.created + 1, email |-> pwd.calls[c].email,
                              otp |-> pwd.calls[c].otp,
                              otpExpiresAt |-> pwd.calls[c].otpExpiresAt,
                              isUsed |-> FALSE]},
          !.created = @ + 1,
          !.calls[c].pc = "done",
          !.calls[c].status = 200]
    /\ UNCHANGED besidePwd

\* passwordResetModel.findOne({email, otp, isUsed: false}): the requests
\* one of which is returned
findResetRequest(coll, email, otp) ==
    {r \in coll : r.email = email /\ r.otp = otp /\ ~r.isUsed}

\* AuthService.resetPassword up to the hash: no unused request with this
\* e-mail and OTP, 400; an expired one, 400; else the user is read (the
\* account is never deleted) and the new password hashed
resetPassword(c) ==
    /\ pwd.calls[c].pc = "idle"
    /\ pwd.started < MaxPwdCalls
    /\ \E email \in Emails, otp \in Otps, newPassword \in NewPasswords :
         LET asked == [NoPwdCall EXCEPT !.email = email, !.otp = otp,
                                        !.newPassword = newPassword,
                                        !.checkedAt = pwd.now]
             matches == findResetRequest(pwd.resets, email, otp)
         IN \E answer \in
                 IF matches = {}
                 THEN {[asked EXCEPT !.pc = "done", !.status = 400]}
                 ELSE {IF pwd.now > resetRequest.otpExpiresAt
                       THEN [asked EXCEPT !.pc = "done", !.status = 400,
                                          !.found = resetRequest]
                       ELSE [asked EXCEPT !.pc = "saveUser", !.found = resetRequest]
                       : resetRequest \in matches} :
              pwd' = [pwd EXCEPT !.started = begun(c).started,
                                 !.overlapped = begun(c).overlapped,
                                 !.calls[c] = answer]
    /\ UNCHANGED besidePwd

\* user.password = hashedPassword; await user.save()
resetSaveUser(c) ==
    /\ pwd.calls[c].pc = "saveUser"
    /\ pwd' = [pwd EXCEPT !.password = bcryptHash(pwd.calls[c].newPassword),
                          !.calls[c].pc = "saveRequest"]
    /\ UNCHANGED besidePwd

\* resetRequest.isUsed = true; await resetRequest.save(): the save of a
\* document that is no longer in the collection is rejected
resetSaveRequest(c) ==
    /\ pwd.calls[c].pc = "saveRequest"
    /\ LET id == pwd.calls[c].found.id
       IN IF \E r \in pwd.resets : r.id = id
          THEN pwd' = [pwd EXCEPT
                  !.resets = {IF r.id = id THEN [r EXCEPT !.isUsed = TRUE] ELSE r
                              : r \in pwd.resets},
                  !.calls[c].pc = "done",
                  !.calls[c].status = 200]
          ELSE pwd' = [pwd EXCEPT !.calls[c].pc = "done", !.calls[c].status = 500]
    /\ UNCHANGED besidePwd

\* the call has been answered
pwdCallEnds(c) ==
    /\ pwd.calls[c].pc = "done"
    /\ pwd' = [pwd EXCEPT !.calls[c] = NoPwdCall]
    /\ UNCHANGED besidePwd

\* the clock moves on; the TTL index removes a request an hour after its
\* creation, later than any clock value reached here
pwdMinutesPass ==
    /\ pwd.ticks < MaxPwdTicks
    /\ pwd' = [pwd EXCEPT !.now = @ + TickMinutes, !.ticks = @ + 1]
    /\ UNCHANGED besidePwd

NextPwd ==
    \/ \E c \in Forgetters : forgotPassword(c)
    \/ \E c \in Forgetters : forgotDeleteMany(c)
    \/ \E c \in Forgetters : forgotCreate(c)
    \/ \E c \in Resetters : resetPassword(c)
    \/ \E c \in Resetters : resetSaveUser(c)
    \/ \E c \in Resetters : resetSaveRequest(c)
    \/ \E c \in Forgetters \cup Resetters : pwdCallEnds(c)
    \/ pwdMinutesPass

SpecPwd == Init /\ [][NextPwd]_vars

\* ------------------------------------------- claim C25: reset not rolled back
\* the rows of storeId all have both totals at zero
totalsAreZero(coll, storeId) ==
    \A r \in rowsOfStore(coll, storeId) :
        r.totalQuantitySold = 0 /\ r.totalRevenue = 0

\* the rows of the stores other than storeId
rowsOfOthers(coll, storeId) == {r \in coll : r.storeId # storeId}

\* C25: in a product sync the reset of a store's rows comes before the vendor
\* fetch and is not undone. When fetchProductSales fails for store S, the
\* collection is the one of before S's iteration with S's totals set to zero
\* and the rows of every other store as they were; and until the run ends
\* (a job goes on with the next stores, the controller answers 500) every
\* row of a store whose fetch failed in this run keeps both totals at zero.
C25_ResetNotRolledBack ==
    /\ (op.kind \in ProductKinds /\ iter.status = "failed") =>
          /\ products = resetStoreProducts(iter.before, iter.store)
          /\ totalsAreZero(products, iter.store)
          /\ rowsOfOthers(products, iter.store) = rowsOfOthers(iter.before, iter.store)
    /\ (op.kind \in ProductJobs) =>
          \A s \in op.caught : totalsAreZero(products, s)
    /\ (op.kind = "syncProductAnalytics" /\ op.response.status = 500) =>
          totalsAreZero(products, op.store)

\* a job run has ended in which the fetch of one store failed after an
\* earlier run had stored sales for it, while another store was synced: the
\* failed store's rows are there with their totals lost, the other store's
\* rows carry totals
C25_Witness ==
    /\ op.kind \in ProductJobs
    /\ op.pc = "done"
    /\ \E s \in op.caught :
         /\ rowsOfStore(products, s) # {}
         /\ \E r \in rowsOfOthers(products, s) : r.totalRevenue > 0

\* --------------------------------- claim C26: overlapping product syncs
\* what a batch holds for a product: its entry's sums, or zero when the
\* product is not in the batch (the reset's value)
quantityIn(batch, productId) ==
    sumSeq([i \in 1..Len(batch) |->
              IF batch[i].productId = productId THEN batch[i].quantitySold ELSE 0])
revenueIn(batch, productId) ==
    sumSeq([i \in 1..Len(batch) |->
              IF batch[i].productId = productId THEN batch[i].revenue ELSE 0])

\* the batches the processes stored for a store
storedFor(storeId) ==
    {b \in UNION {syncs[p].batches : p \in Syncers} : b.store = storeId}
\* a process's fetch failed for the store
failedFor(storeId) == \E p \in Syncers : storeId \in syncs[p].o.caught
allFinished == \A p \in Syncers : syncs[p].o.pc = "done"

\* a row holds the sums of one batch
holdsOneBatch(r, b) ==
    /\ r.totalQuantitySold = quantityIn(b.batch, r.productId)
    /\ r.totalRevenue = revenueIn(b.batch, r.productId)

\* C26: once two product syncs that touched the same store have both
\* finished, with no fetch of that store failed, each of the store's rows
\* holds the sums of a single fetched batch, also when the two overlapped.
C26_SingleBatchAfterOverlap ==
    allFinished =>
        \A s \in Stores :
            (storedFor(s) # {} /\ ~failedFor(s)) =>
                \A r \in rowsOfStore(products, s) :
                    \E b \in storedFor(s) : holdsOneBatch(r, b)

\* the same with one process alone: the guarantee of a single sync
SingleSyncHoldsBatch ==
    (allFinished /\ \E p \in Syncers : syncs[p].o.kind = "syncProductAnalytics"
                                      /\ syncs[p].o.response.status = 404) =>
        \A s \in Stores :
            (storedFor(s) # {} /\ ~failedFor(s)) =>
                \A r \in rowsOfStore(products, s) :
                    \E b \in storedFor(s) : holdsOneBatch(r, b)

\* ----------------------------- claim C27: removal beside a running job
\* the removal has answered 200 and no job is running
removedAndQuiet == removeRace.pc = "done" /\ removeRace.status = 200 /\ op.kind = "idle"

\* C27: when a store is removed while a sync job that already read the store
\* list is running, then once the removal and the job have both finished no
\* Daily Store Metric row references the removed store.
C27_NoRowsOfRemovedStore ==
    removedAndQuiet => rowsOfStore(metrics, removeRace.store) = {}

\* the same for a store no job had in the list it read: the job ran after
\* the removal, or not at all
RemovalAloneLeavesNoRows ==
    (removedAndQuiet /\ removeRace.store \notin DOMAIN removeRace.docs) =>
        rowsOfStore(metrics, removeRace.store) = {}

\* ------------------------------- claim C28: one row per fetched page
\* the rows a store has for the window that starts at startDate
rowsOfWindow(coll, storeId, startDate) ==
    {r \in coll : r.storeId = storeId /\ r.startDate = startDate}
trafficSynced == op.kind \in TrafficKinds /\ iter.status = "done"

\* C28: after a traffic sync of store S with window start W has succeeded,
\* the number of Traffic Metric rows of S with startDate = W equals the
\* number of landing-page rows fetched, which is the processed count the
\* sync reports, also when two fetched rows share a path and differ in type.
C28_OneRowPerFetchedPage ==
    trafficSynced =>
        /\ iter.reported = Len(iter.batch)
        /\ Cardinality(rowsOfWindow(traffic, iter.store, op.from)) = Len(iter.batch)

\* what the code does keep: the processed count is the number of fetched
\* rows, and the window holds one row per distinct fetched path
OneRowPerFetchedPath ==
    trafficSynced =>
        /\ iter.reported = Len(iter.batch)
        /\ {r.landingPagePath : r \in rowsOfWindow(traffic, iter.store, op.from)}
             = {iter.batch[i].landingPagePath : i \in 1..Len(iter.batch)}
        /\ Cardinality(rowsOfWindow(traffic, iter.store, op.from))
             = Cardinality({iter.batch[i].landingPagePath : i \in 1..Len(iter.batch)})

\* ------------------------------ claim C29: access follows the stored record
\* the record of the user a request's token names, as stored now
storedUser == access.members[access.request.token.sub]
\* the request's token was issued when the record listed the store, or
\* made the user an admin
tokenGrants ==
    \/ access.request.token.role = "ADMIN"
    \/ access.request.store \in access.request.token.assignedStores

\* C29: the JWT strategy reads the user's record on every request: an
\* inactive user is answered 401, else request.user carries the role and
\* assignedStores of the record as stored at that moment, whatever the token
\* says. StoreAccessGuard then admits the request exactly when that user is
\* an admin or the requested store is among those assignedStores. So a
\* request made after removeStores(u, [s]) or after u's deactivation is
\* rejected, also with a token issued before the change.
C29_AccessFollowsStoredRecord ==
    [][/\ (access.request.pc = "validate" /\ access'.request.pc # "validate") =>
             IF ~storedUser.isActive
             THEN access'.request.pc = "done" /\ access'.request.status = 401
             ELSE /\ access'.request.pc = "guard"
                  /\ access'.request.user.given
                  /\ access'.request.user.role = storedUser.role
                  /\ access'.request.user.assignedStores = storedUser.assignedStores
       /\ (access.request.pc = "guard" /\ access'.request.pc # "guard") =>
             /\ access'.request.pc = "done"
             /\ access'.request.status \in {200, 403}
             /\ (access'.request.status = 200) <=>
                   \/ access.request.user.role = "ADMIN"
                   \/ access.request.store \in access.request.user.assignedStores
      ]_vars

\* a request for a store was rejected by the guard although it carried a
\* token issued while the store was assigned: the store has been removed
\* from the user's record since
C29_Witness ==
    /\ access.request.pc = "done"
    /\ access.request.status = 403
    /\ access.request.token.role # "ADMIN"
    /\ access.request.store \in access.request.token.assignedStores
    /\ access.request.store \notin storedUser.assignedStores

\* a deactivated user's request was answered 401 although its token grants
\* the store
DeactivatedRejected ==
    /\ access.request.pc = "done"
    /\ access.request.status = 401
    /\ tokenGrants
    /\ ~storedUser.isActive

\* an admin was admitted for a store that is not assigned
AdminAdmitted ==
    /\ access.request.pc = "done"
    /\ access.request.status = 200
    /\ access.request.user.role = "ADMIN"
    /\ access.request.store \notin access.request.user.assignedStores

\* --------------------------------- claim C30: password reset by OTP only
\* call c writes the new password in this step
changesPassword(c) == pwd.calls[c].pc = "saveUser" /\ pwd'.calls[c].pc = "saveRequest"
\* call c is answered in this step
answered(c) == pwd.calls[c].pc # "done" /\ pwd'.calls[c].pc = "done"
\* the request stored last for an e-mail address is the one created last,
\* as long as it is there
latestIssued(r) == r.id = pwd.created

\* the password is written for a request that is in the collection,
\* unused, the one issued last, and was not expired when it was checked
byValidOtp(c) ==
    LET found == pwd.calls[c].found
    IN /\ found \in pwd.resets
       /\ ~found.isUsed
       /\ latestIssued(found)
       /\ found.email = pwd.calls[c].email /\ found.otp = pwd.calls[c].otp
       /\ pwd.calls[c].checkedAt <= found.otpExpiresAt

\* what one step of the password reset flow must keep
resetStepIsSound ==
    /\ \A c \in Resetters : changesPassword(c) => byValidOtp(c)
    /\ \A c \in Resetters :
          (answered(c) /\ pwd'.calls[c].status = 200) =>
              \E r \in pwd'.resets : r.id = pwd.calls[c].found.id /\ r.isUsed
    /\ \A c \in Resetters :
          (answered(c) /\ pwd'.calls[c].status # 200) =>
              /\ pwd.calls[c].pc = "idle"
              /\ pwd'.password = pwd.password
    /\ \A c \in Forgetters :
          (answered(c) /\ pwd'.calls[c].status = 200) =>
              \A r \in pwd'.resets :
                  (r.email = pwd.calls[c].email /\ ~r.isUsed) => r.id = pwd'.created
    /\ (\A c \in Resetters : ~changesPassword(c)) => pwd'.password = pwd.password

\* C30: resetPassword changes the password only when given the most
\* recently issued reset OTP of the e-mail address, while that OTP is unused
\* and not expired; a successful resetPassword marks the OTP used, so a
\* later resetPassword with it is rejected; a forgotPassword that succeeds
\* leaves no earlier unused OTP of the address; a rejected resetPassword
\* leaves the password unchanged.
C30_ResetOnlyByLatestUnusedOtp == [][resetStepIsSound]_vars

\* the same for calls that are served one after the other
ResetSoundWithoutOverlap == [][~pwd'.overlapped => resetStepIsSound]_vars

\* a used OTP was refused, an expired OTP was refused, and a superseded
\* OTP was refused, with no two calls overlapping
UsedOtpRefused ==
    /\ ~pwd.overlapped
    /\ \E c \in Resetters :
         /\ pwd.calls[c].pc = "done" /\ pwd.calls[c].status = 400
         /\ \E r \in pwd.resets : r.email = pwd.calls[c].email /\ r.otp = pwd.calls[c].otp
                                  /\ r.isUsed
ExpiredOtpRefused ==
    /\ ~pwd.overlapped
    /\ \E c \in Resetters :
         /\ pwd.calls[c].pc = "done" /\ pwd.calls[c].status = 400
         /\ pwd.calls[c].found # NoPasswordReset
         /\ pwd.calls[c].checkedAt > pwd.calls[c].found.otpExpiresAt
====
